---- MODULE Spec2Model ----
(***************************************************************************)
(* Audio reference resolution and playlist assembly of the news podcast    *)
(* API (src/src/api_handler.py, src/src/config.py, src/src/audio_proxy.py, *)
(* src/local_server.py).                                                   *)
(*                                                                         *)
(* Strings are sequences of tokens.  A token is either the separator "/"   *)
(* or a fragment that contains no "/", so that str.split('/'),             *)
(* str.startswith, the substring test and os.path.basename / os.path.join  *)
(* are computed on the token sequence exactly as Python computes them on   *)
(* the characters.                                                         *)
(***************************************************************************)
EXTENDS Naturals, Sequences, FiniteSets, TLC

VARIABLES
    pc,              \* position of the running handler / function
    raw,             \* input of the key functions: a raw audio reference
    audio_key,       \* key extracted from raw (get_playlist / get_episode)
    s3_keys_to_try,  \* candidate list built by generate_presigned_url
    episode_data,    \* create_playlist: the episode dict
    i,               \* create_playlist: index of the article being handled
    playlist,        \* create_playlist: the list being built
    exists,          \* object store: keys whose head_object succeeds
    denied,          \* object store: keys whose head_object raises an error other than 404
    outage,          \* object store: "none" (a denied key raises a ClientError), "flaky"
                     \*   (a denied key raises a non-ClientError, e.g. a timeout), "client"
                     \*   (every probe raises a ClientError other than 404) or "conn"
                     \*   (every probe raises a non-ClientError)
    API_DOMAIN,      \* config.API_DOMAIN (token sequence, << >> when unset)
    stored,          \* the JSON object the handler reads from the store (never written)
    metadata,        \* the object as loaded and converted in place by the handler
    idx,             \* number of playlist items already converted
    akeys,           \* per converted item: audio_key handed to build_audio_url (NoKey if none)
    probes,          \* head_object calls made for the item converted last:
                     \*   [n: number of calls, hit: keys whose call succeeded]
    signs,           \* s3_client.generate_presigned_url calls made for the item
                     \*   converted last: set of <<Key, ExpiresIn>>
    resp,            \* the response returned by the handler (NoResp until then)
    event,           \* the API Gateway event of the request (NoEvent when none is modelled)
    file_path,       \* audio_proxy.lambda_handler: the requested path as cleaned so far
    paths_to_try,    \* audio_proxy.lambda_handler: the store keys (Lambda) or local
                     \*   paths (development) in the order in which they are tried
    IS_LAMBDA        \* config.IS_LAMBDA

vars == <<pc, raw, audio_key, s3_keys_to_try, episode_data, i, playlist,
          exists, denied, outage, API_DOMAIN, stored, metadata, idx, akeys,
          probes, signs, resp, event, file_path, paths_to_try, IS_LAMBDA>>

keyVars      == <<raw, audio_key, s3_keys_to_try>>
assemblyVars == <<episode_data, i, playlist>>
storeVars    == <<exists, denied, outage, API_DOMAIN, IS_LAMBDA>>
proxyVars    == <<event, file_path, paths_to_try>>
requestVars  == <<stored, metadata, idx, akeys, probes, signs, resp>>

----------------------------------------------------------------------------
(* Bounds of the model *)

\* longest key drawn for the key functions (tokens)
MaxKeyLen == 5
\* most articles of an episode handed to create_playlist
MaxArticles == 2
\* most items of a stored playlist
MaxItems == 2
\* most articles of an episode read by get_episode
MaxEpisodeArticles == 2

----------------------------------------------------------------------------
(* Python values and string operations on token sequences *)

\* Python None (distinct from every string of the model)
None == <<"<None>">>
\* a value that is not a str (a JSON number)
NotAStr == <<"<int>">>
\* absence of a key / of a response
NoKey == <<"<no key>">>
NoResp == [statusCode |-> 0]
\* no head_object call made
NoProbes == [n |-> 0, hit |-> {}]
\* no event: the function is called directly
NoEvent == [httpMethod |-> "<none>"]
\* handle_request and audio_proxy.lambda_handler are not running
ProxyIdle == event = NoEvent /\ file_path = << >> /\ paths_to_try = << >>

Slash == "/"
S(tok) == <<tok>>

\* str.startswith(p)
StartsWith(s, p) == Len(s) >= Len(p) /\ SubSeq(s, 1, Len(p)) = p
\* p in s
Contains(s, p) == \E k \in 1..(Len(s) + 1 - Len(p)) : SubSeq(s, k, k + Len(p) - 1) = p
\* s[n:]
Drop(s, n) == SubSeq(s, n + 1, Len(s))

\* index of the last "/" of s, 0 when there is none
LastSlash(s) ==
    LET at == {k \in 1..Len(s) : s[k] = Slash}
    IN  IF at = {} THEN 0 ELSE CHOOSE k \in at : \A m \in at : m <= k

\* s.split('/')[-1], which is also os.path.basename(s)
SplitLast(s) == Drop(s, LastSlash(s))

\* s.split(p)[-1] for a separator p that cannot overlap itself:
\* what follows the last occurrence of p, s itself when p does not occur
SplitLastOn(s, p) ==
    LET at == {k \in 1..(Len(s) + 1 - Len(p)) : SubSeq(s, k, k + Len(p) - 1) = p}
    IN  IF at = {} THEN s
        ELSE Drop(s, (CHOOSE k \in at : \A m \in at : m <= k) + Len(p) - 1)

\* os.path.join(a, b) for a non-empty a (posixpath)
PathJoin(a, b) ==
    IF StartsWith(b, S(Slash)) THEN b
    ELSE IF a[Len(a)] = Slash THEN a \o b
    ELSE a \o S(Slash) \o b

\* the elements of a sequence
Range(s) == {s[k] : k \in 1..Len(s)}

\* all sequences over T of length at most n
RECURSIVE SeqsUpTo(_, _)
SeqsUpTo(T, n) ==
    IF n = 0 THEN {<< >>}
    ELSE LET shorter == SeqsUpTo(T, n - 1)
         IN  shorter \cup {Append(s, t) : s \in {x \in shorter : Len(x) = n - 1}, t \in T}

----------------------------------------------------------------------------
(* Configuration and URL shapes *)

\* "<S3_BUCKET>.s3.amazonaws.com" for S3_BUCKET = "x"
BucketHost == "x.s3.amazonaws.com"
HTTPS == <<"https:", Slash, Slash>>
HTTP  == <<"http:", Slash, Slash>>
\* a query string carrying the signature marker X-Amz-Signature=
SigQuery == "?X-Amz-Signature=s"
\* the tokens of the model that contain the substring 'X-Amz-Signature='
HasMarker(s) == Contains(s, S(SigQuery))
\* f"{S3_BUCKET}.s3.amazonaws.com/"
BucketBase == <<BucketHost, Slash>>
AudioSlash == <<"audio", Slash>>
SlashAudioSlash == <<Slash, "audio", Slash>>

\* url.startswith(('https://', 'http://'))
IsHttpUrl(s) == StartsWith(s, HTTPS) \/ StartsWith(s, HTTP)

\* the signed-URL test looking for a marker no signed URL carries
IsSignedUrl_WrongMarker(s) == IsHttpUrl(s) /\ Contains(s, S("?Signature=s"))

\* the 'already a signed URL' test of get_playlist, get_episode and get_article_audio
IsSignedUrl(s) == IsHttpUrl(s) /\ HasMarker(s)

----------------------------------------------------------------------------
(* Reference normalisation: api_handler.get_playlist and get_episode *)

\* a test that takes only None for 'no reference'
Falsy_NoneOnly(v) == v = None

\* item['audio_url'] is falsy: None or ''
Falsy(v) == v = None \/ v = << >>

\* PlaylistAudioKey without the recovery of lines 367-370 (the embedded URL
\* is kept whole)
PlaylistAudioKey_NoRecovery(original_url) ==
    IF StartsWith(original_url, SlashAudioSlash)
    THEN Drop(original_url, 3)
    ELSE IF IsHttpUrl(original_url)
    THEN IF Contains(original_url, BucketBase)
         THEN SplitLastOn(original_url, BucketBase)
         ELSE SplitLast(original_url)
    ELSE original_url

\* PlaylistAudioKey that gives no key for a URL outside the bucket
PlaylistAudioKey_ForeignUnresolved(original_url) ==
    IF StartsWith(original_url, SlashAudioSlash)
    THEN LET after == Drop(original_url, 3)
         IN  IF IsHttpUrl(after) THEN SplitLast(after) ELSE after
    ELSE IF IsHttpUrl(original_url)
    THEN IF Contains(original_url, BucketBase)
         THEN SplitLastOn(original_url, BucketBase)
         ELSE << >>
    ELSE original_url

\* get_playlist, lines 359-388: the audio_key extracted from a raw reference
\* that is a str, is not empty and is not a signed URL
PlaylistAudioKey(original_url) ==
    IF StartsWith(original_url, SlashAudioSlash)
    THEN LET after == Drop(original_url, 3)
         IN  IF IsHttpUrl(after) THEN SplitLast(after) ELSE after
    ELSE IF IsHttpUrl(original_url)
    THEN IF Contains(original_url, BucketBase)
         THEN SplitLastOn(original_url, BucketBase)
         ELSE SplitLast(original_url)
    ELSE original_url

\* get_episode, lines 116-118 (150-151, 165-166): only an https URL that
\* contains the bucket base yields a key; NoKey leaves the reference as it is
EpisodeAudioKey(original_url) ==
    IF StartsWith(original_url, HTTPS) /\ Contains(original_url, BucketBase)
    THEN SplitLastOn(original_url, BucketBase)
    ELSE NoKey

----------------------------------------------------------------------------
(* Candidate keys: audio_proxy.generate_presigned_url *)

\* lines 33-41: cleaning of the key
CleanKey(key) ==
    LET stripped == IF StartsWith(key, SlashAudioSlash) THEN Drop(key, 3)
                    ELSE IF StartsWith(key, AudioSlash) THEN Drop(key, 2)
                    ELSE key
    IN  IF Contains(stripped, HTTPS) \/ Contains(stripped, HTTP)
        THEN SplitLast(stripped)
        ELSE stripped

\* CandidateList with the bare basename tried as well
CandidateList_BareBasename(key) ==
    << key,
       <<"audio", Slash>> \o key,
       <<"data", Slash, "audio", Slash>> \o key,
       <<"narration", Slash>> \o key,
       <<"data", Slash, "narration", Slash>> \o key,
       PathJoin(<<"data">>, key),
       SplitLast(key),
       PathJoin(<<"audio">>, SplitLast(key)),
       PathJoin(<<"data", Slash, "audio">>, SplitLast(key)),
       PathJoin(<<"narration">>, SplitLast(key)),
       PathJoin(<<"data", Slash, "narration">>, SplitLast(key)) >>

\* lines 44-56 (and lambda_handler, lines 150-162): the keys to try, as listed
CandidateList(key) ==
    << key,
       <<"audio", Slash>> \o key,
       <<"data", Slash, "audio", Slash>> \o key,
       <<"narration", Slash>> \o key,
       <<"data", Slash, "narration", Slash>> \o key,
       PathJoin(<<"data">>, key),
       PathJoin(<<"audio">>, SplitLast(key)),
       PathJoin(<<"data", Slash, "audio">>, SplitLast(key)),
       PathJoin(<<"narration">>, SplitLast(key)),
       PathJoin(<<"data", Slash, "narration">>, SplitLast(key)) >>

\* line 59: list(set(s3_keys_to_try)) keeps one copy of each key; the order of
\* the result is the iteration order of a set of str, which the program does
\* not control (it changes with the interpreter's hash seed)
CandidateSet(key) == Range(CandidateList(key))

----------------------------------------------------------------------------
(* Specification SpecKeys: the key functions applied to bounded raw inputs *)

KeyTokens == {Slash, "data", "audio", "ep1.mp3", BucketHost}
Keys == SeqsUpTo(KeyTokens, MaxKeyLen)

RawPrefixes ==
    { << >>,
      SlashAudioSlash,
      HTTPS \o BucketBase,
      HTTP \o BucketBase,
      HTTPS \o <<"evil", Slash>>,
      SlashAudioSlash \o HTTP \o <<"evil", Slash>>,
      SlashAudioSlash \o HTTPS \o BucketBase }
RawSuffixes == { << >>, S(SigQuery) }

RawInputs ==
    {p \o k \o q : p \in RawPrefixes, k \in Keys, q \in RawSuffixes}
        \cup {None, NotAStr}

InitKeys ==
    /\ pc = "raw"
    /\ raw \in RawInputs
    /\ audio_key = NoKey
    /\ s3_keys_to_try = << >>
    /\ episode_data = << >> /\ i = 0 /\ playlist = << >>
    /\ exists = {} /\ denied = {} /\ outage = "none" /\ API_DOMAIN = << >>
    /\ IS_LAMBDA = TRUE /\ ProxyIdle
    /\ stored = << >> /\ metadata = << >> /\ idx = 0 /\ akeys = << >> /\ probes = NoProbes /\ signs = {}
    /\ resp = NoResp

\* get_playlist line 345: a falsy reference is left alone
SkipFalsy ==
    /\ pc = "raw"
    /\ Falsy(raw)
    /\ pc' = "skipped"
    /\ UNCHANGED <<keyVars, assemblyVars, storeVars, proxyVars, requestVars>>

\* get_playlist lines 352-357 / get_episode lines 112-114: signed URL, no key
SkipSigned ==
    /\ pc = "raw"
    /\ ~Falsy(raw) /\ raw # NotAStr
    /\ IsSignedUrl(raw)
    /\ pc' = "signed"
    /\ UNCHANGED <<keyVars, assemblyVars, storeVars, proxyVars, requestVars>>

\* get_playlist line 362: original_url.startswith on a value that is no str
RaiseNotAStr ==
    /\ pc = "raw"
    /\ raw = NotAStr
    /\ pc' = "raised"
    /\ UNCHANGED <<keyVars, assemblyVars, storeVars, proxyVars, requestVars>>

\* get_playlist lines 359-388
ExtractPlaylistKey ==
    /\ pc = "raw"
    /\ ~Falsy(raw) /\ raw # NotAStr
    /\ ~IsSignedUrl(raw)
    /\ audio_key' = PlaylistAudioKey(raw)
    /\ pc' = "playlist_key"
    /\ UNCHANGED <<raw, s3_keys_to_try, assemblyVars, storeVars, proxyVars, requestVars>>

\* get_episode lines 116-118
ExtractEpisodeKey ==
    /\ pc = "raw"
    /\ ~Falsy(raw) /\ raw # NotAStr
    /\ ~IsSignedUrl(raw)
    /\ audio_key' = EpisodeAudioKey(raw)
    /\ pc' = "episode_key"
    /\ UNCHANGED <<raw, s3_keys_to_try, assemblyVars, storeVars, proxyVars, requestVars>>

\* build_audio_url lines 118-134 reaching generate_presigned_url lines 33-59
GenerateCandidates ==
    /\ pc \in {"playlist_key", "episode_key"}
    /\ audio_key # NoKey /\ audio_key # << >> /\ ~IsHttpUrl(audio_key)
    /\ s3_keys_to_try' = CandidateList(CleanKey(audio_key))
    /\ pc' = IF pc = "playlist_key" THEN "playlist_cands" ELSE "episode_cands"
    /\ UNCHANGED <<raw, audio_key, assemblyVars, storeVars, proxyVars, requestVars>>

NextKeys ==
    \/ SkipFalsy
    \/ SkipSigned
    \/ RaiseNotAStr
    \/ ExtractPlaylistKey
    \/ ExtractEpisodeKey
    \/ GenerateCandidates

SpecKeys == InitKeys /\ [][NextKeys]_vars

----------------------------------------------------------------------------
(* Claims about the key functions (specification SpecKeys) *)

\* the four prefixes under which a key is looked up
KeyPrefixes ==
    { <<"audio", Slash>>, <<"data", Slash, "audio", Slash>>,
      <<"narration", Slash>>, <<"data", Slash, "narration", Slash>> }

AtCandidates == pc \in {"playlist_cands", "episode_cands"}
AtKey == pc \in {"playlist_key", "episode_key"}

\* the example key data/audio/ep1.mp3 and its bucket URL
ExampleKey == <<"data", Slash, "audio", Slash, "ep1.mp3">>
ExampleBucketUrl == HTTPS \o BucketBase \o ExampleKey

\* C6 (as claimed): for every canonical key k the candidates contain k, k under
\* each of audio/, data/audio/, narration/, data/narration/, the basename of k
\* under each of them, and the bare basename of k.
C6_CandidatesIncludeBareBasename ==
    AtCandidates =>
        LET k == audio_key
            c == Range(s3_keys_to_try)
        IN  /\ k \in c
            /\ \A p \in KeyPrefixes : p \o k \in c /\ p \o SplitLast(k) \in c
            /\ SplitLast(k) \in c

\* C6 (amended): with k the key as cleaned by generate_presigned_url, the
\* candidates are exactly k, k under each of the four prefixes, k under data/
\* (k itself when it starts with "/"), and the basename of k under each of the
\* four prefixes; the bare basename of k is a candidate only when k has no
\* directory part, so for data/audio/ep1.mp3 the key itself is a candidate and
\* ep1.mp3 is not.
C6_CandidatesAmended ==
    AtCandidates =>
        LET k == CleanKey(audio_key)
            b == SplitLast(k)
            c == Range(s3_keys_to_try)
        IN  /\ c = {k}
                   \cup {p \o k : p \in KeyPrefixes}
                   \cup {IF k # << >> /\ k[1] = Slash THEN k ELSE <<"data", Slash>> \o k}
                   \cup {p \o b : p \in KeyPrefixes}
            /\ (b \in c <=> b = k)

C6_Witness ==
    /\ pc = "playlist_cands"
    /\ raw = ExampleBucketUrl
    /\ audio_key = ExampleKey
    /\ ExampleKey \in Range(s3_keys_to_try)
    /\ <<"ep1.mp3">> \notin Range(s3_keys_to_try)

\* C7: for every raw reference https://<bucket>.s3.amazonaws.com/<key> the key
\* extracted by get_playlist and by get_episode is <key> exactly.
C7_BucketUrlKeyExact ==
    (AtKey /\ StartsWith(raw, HTTPS \o BucketBase)) =>
        audio_key = Drop(raw, Len(HTTPS \o BucketBase))

\* the example of C7, on which the code agrees with the claim
C7_ExampleReached ==
    /\ AtKey
    /\ raw = ExampleBucketUrl
    /\ audio_key = ExampleKey

\* C8: for every raw reference /audio/ followed by a string that starts with
\* http:// or https://, get_playlist extracts the final path component of the
\* reference, and that component is the first key generate_presigned_url tries.
C8_DoubleWrapYieldsFilename ==
    (/\ pc \in {"playlist_key", "playlist_cands"}
     /\ StartsWith(raw, SlashAudioSlash)
     /\ IsHttpUrl(Drop(raw, Len(SlashAudioSlash)))) =>
        /\ audio_key = SplitLast(raw)
        /\ pc = "playlist_cands" => s3_keys_to_try[1] = SplitLast(raw)

C8_Witness ==
    /\ pc = "playlist_cands"
    /\ raw = SlashAudioSlash \o HTTP \o <<"evil", Slash, "ep1.mp3">>
    /\ audio_key = <<"ep1.mp3">>
    /\ s3_keys_to_try[1] = <<"ep1.mp3">>

----------------------------------------------------------------------------
(* Playlist assembly: local_server.create_playlist *)

\* a key that is not in the dict
Absent == <<"<absent>">>

\* "k in d and d[k]" for the value v stored under k (Absent when k is missing)
Present(v) == v # Absent /\ ~Falsy(v)

\* audio files of the model; article k uses the k-th name of each list
IntroUrl == <<"audio", Slash, "intro.mp3">>
OutroUrl == <<"audio", Slash, "outro.mp3">>
ArticleNames == <<"a1.mp3", "a2.mp3", "a3.mp3", "a4.mp3", "a5.mp3">>
ArticleIntroNames == <<"i1.mp3", "i2.mp3", "i3.mp3", "i4.mp3", "i5.mp3">>
TransitionNames == <<"t12.mp3", "t23.mp3", "t34.mp3", "t45.mp3", "t56.mp3">>
ArticleIds == <<S("id1"), S("id2"), S("id3"), S("id4"), S("id5")>>
ArticleUrl(k) == <<"audio", Slash, ArticleNames[k]>>
ArticleIntroUrl(k) == <<"audio", Slash, ArticleIntroNames[k]>>
TransitionUrl(k) == <<"audio", Slash, TransitionNames[k]>>

\* the values a reference field may hold: missing, empty, or the file's URL
RefValues(url) == {Absent, << >>, url}

\* the articles of an episode: article k has an id and the two references
\* intro_audio_url and audio_url; the first article may come without 'id';
\* an article intro that is not there is a missing key for the first article
\* and an empty string for the others
ArticleValues(k) ==
    [id : {ArticleIds[k]} \cup (IF k = 1 THEN {Absent} ELSE {}),
     intro_audio_url : {IF k = 1 THEN Absent ELSE << >>, ArticleIntroUrl(k)},
     audio_url : RefValues(ArticleUrl(k))]

RECURSIVE ArticleLists(_)
ArticleLists(n) ==
    IF n = 0 THEN {<< >>}
    ELSE {Append(l, a) : l \in ArticleLists(n - 1), a \in ArticleValues(n)}

\* transition[k] is episode_data['transition_<k>_<k+1>_audio_url'] for the
\* boundaries k < n between articles; transition[n] is such a key stored for
\* the boundary after the last article (there or not)
RECURSIVE BoundaryLists(_)
BoundaryLists(m) ==
    IF m = 0 THEN {<< >>}
    ELSE {Append(l, v) : l \in BoundaryLists(m - 1), v \in RefValues(TransitionUrl(m))}

TransitionLists(n) ==
    IF n = 0 THEN {<< >>}
    ELSE {Append(l, v) : l \in BoundaryLists(n - 1), v \in {Absent, TransitionUrl(n)}}

Episodes ==
    UNION {
        [intro_audio_url : RefValues(IntroUrl),
         outro_audio_url : RefValues(OutroUrl),
         articles : ArticleLists(n),
         transition : TransitionLists(n)] : n \in 0..MaxArticles }

\* an article entry that is not tagged with the article id
ArticleSegment_Untagged(type, article, url) == [type |-> type, audio_url |-> url]

\* lines 178-182, 217-221: the intro / outro entry
PlainSegment(type, url) == [type |-> type, audio_url |-> url]
\* lines 190-194, 198-202: an entry tagged with the article id
ArticleSegment(type, article, url) ==
    [type |-> type, article_id |-> article.id, audio_url |-> url]

\* KeyError as raised by a loop that reads article['intro_audio_url'] without
\* testing that the key is there
RaisesKeyError_OnMissingRef(article) == article.intro_audio_url = Absent

\* article['id'] raises KeyError: lines 192 and 200 read it only when the
\* entry is appended
RaisesKeyError(article) ==
    /\ article.id = Absent
    /\ Present(article.intro_audio_url) \/ Present(article.audio_url)

\* the body of the loop with the transition tried after every article,
\* the last one included
LoopBody_TransitionAfterLast(ep, k) ==
    LET article == ep.articles[k]
    IN  (IF Present(article.intro_audio_url)
         THEN <<ArticleSegment("article_intro", article, article.intro_audio_url)>>
         ELSE << >>)
        \o (IF Present(article.audio_url)
            THEN <<ArticleSegment("article", article, article.audio_url)>>
            ELSE << >>)
        \o (IF Present(ep.transition[k])
            THEN <<PlainSegment("transition", ep.transition[k])>>
            ELSE << >>)

\* the body of the loop with the article appended before its intro
LoopBody_ArticleFirst(ep, k) ==
    LET article == ep.articles[k]
        num_articles == Len(ep.articles)
    IN  (IF Present(article.audio_url)
         THEN <<ArticleSegment("article", article, article.audio_url)>>
         ELSE << >>)
        \o (IF Present(article.intro_audio_url)
            THEN <<ArticleSegment("article_intro", article, article.intro_audio_url)>>
            ELSE << >>)
        \o (IF k - 1 < num_articles - 1 /\ Present(ep.transition[k])
            THEN <<PlainSegment("transition", ep.transition[k])>>
            ELSE << >>)

\* lines 187-214: what one iteration of the loop appends for the article at
\* index k - 1 (enumerate counts from 0, sequences from 1)
LoopBody(ep, k) ==
    LET article == ep.articles[k]
        num_articles == Len(ep.articles)
    IN  (IF Present(article.intro_audio_url)
         THEN <<ArticleSegment("article_intro", article, article.intro_audio_url)>>
         ELSE << >>)
        \o (IF Present(article.audio_url)
            THEN <<ArticleSegment("article", article, article.audio_url)>>
            ELSE << >>)
        \o (IF k - 1 < num_articles - 1 /\ Present(ep.transition[k])
            THEN <<PlainSegment("transition", ep.transition[k])>>
            ELSE << >>)

InitAssembly ==
    /\ pc = "BeforeIntro"
    /\ episode_data \in Episodes
    /\ i = 0
    /\ playlist = << >>
    /\ raw = << >> /\ audio_key = NoKey /\ s3_keys_to_try = << >>
    /\ exists = {} /\ denied = {} /\ outage = "none" /\ API_DOMAIN = << >>
    /\ IS_LAMBDA = FALSE /\ ProxyIdle
    /\ stored = << >> /\ metadata = << >> /\ idx = 0 /\ akeys = << >> /\ probes = NoProbes /\ signs = {}
    /\ resp = NoResp

\* lines 175-182
AddIntro ==
    /\ pc = "BeforeIntro"
    /\ playlist' = IF Present(episode_data.intro_audio_url)
                   THEN <<PlainSegment("intro", episode_data.intro_audio_url)>>
                   ELSE << >>
    /\ i' = 1
    /\ pc' = "InArticles"
    /\ UNCHANGED <<episode_data, keyVars, storeVars, proxyVars, requestVars>>

\* lines 187-214, one iteration
AddArticle ==
    /\ pc = "InArticles"
    /\ i <= Len(episode_data.articles)
    /\ ~RaisesKeyError(episode_data.articles[i])
    /\ playlist' = playlist \o LoopBody(episode_data, i)
    /\ i' = i + 1
    /\ UNCHANGED <<pc, episode_data, keyVars, storeVars, proxyVars, requestVars>>

\* lines 192, 200: KeyError leaves create_playlist without a playlist
AbortOnMissingId ==
    /\ pc = "InArticles"
    /\ i <= Len(episode_data.articles)
    /\ RaisesKeyError(episode_data.articles[i])
    /\ pc' = "KeyError"
    /\ UNCHANGED <<i, playlist, episode_data, keyVars, storeVars, proxyVars, requestVars>>

\* lines 216-223
AddOutro ==
    /\ pc = "InArticles"
    /\ i > Len(episode_data.articles)
    /\ playlist' = IF Present(episode_data.outro_audio_url)
                   THEN Append(playlist, PlainSegment("outro", episode_data.outro_audio_url))
                   ELSE playlist
    /\ pc' = "Done"
    /\ UNCHANGED <<i, episode_data, keyVars, storeVars, proxyVars, requestVars>>

NextAssembly ==
    \/ AddIntro
    \/ AddArticle
    \/ AbortOnMissingId
    \/ AddOutro

SpecAssembly == InitAssembly /\ [][NextAssembly]_vars

\* create_playlist is one synchronous call: once entered it runs each of its
\* statements in turn until it returns or raises
SpecAssemblyFair == SpecAssembly /\ WF_vars(NextAssembly)

----------------------------------------------------------------------------
(* Claims about create_playlist (specification SpecAssembly) *)

\* the canonical sequence of an episode's slots: intro, then for every article
\* its intro, the article and (unless it is the last) the transition to the
\* next one, then the outro; each slot with the reference it holds
RECURSIVE ArticleSlots(_, _)
ArticleSlots(ep, n) ==
    IF n = 0 THEN << >>
    ELSE ArticleSlots(ep, n - 1)
         \o (IF n > 1 THEN <<[type |-> "transition", ref |-> ep.transition[n - 1]]>>
             ELSE << >>)
         \o <<[type |-> "article_intro", article_id |-> ep.articles[n].id,
               ref |-> ep.articles[n].intro_audio_url],
              [type |-> "article", article_id |-> ep.articles[n].id,
               ref |-> ep.articles[n].audio_url]>>

CanonicalSlots(ep) ==
    <<[type |-> "intro", ref |-> ep.intro_audio_url]>>
    \o ArticleSlots(ep, Len(ep.articles))
    \o <<[type |-> "outro", ref |-> ep.outro_audio_url]>>

\* the slots whose reference is there and not empty, in the same order
RECURSIVE Restrict(_)
Restrict(slots) ==
    IF slots = << >> THEN << >>
    ELSE LET rest == Restrict(Tail(slots))
             h == Head(slots)
         IN  IF h.ref = Absent \/ h.ref = << >> \/ h.ref = None THEN rest
             ELSE <<h>> \o rest

\* C1: the playlist create_playlist returns is the canonical sequence
\* restricted to the slots whose reference is present and non-empty: same
\* segments, same order, none with an empty URL.
C1_PlaylistIsCanonicalSequence ==
    pc = "Done" =>
        LET want == Restrict(CanonicalSlots(episode_data))
        IN  /\ Len(playlist) = Len(want)
            /\ \A k \in 1..Len(want) :
                  /\ playlist[k].type = want[k].type
                  /\ playlist[k].audio_url = want[k].ref
                  /\ playlist[k].audio_url # << >>

\* two articles, intro, outro, a transition between them and one stored for
\* the boundary after the last article: the playlist is intro, A, transition,
\* B, outro (article intros missing)
C1_Witness ==
    /\ pc = "Done"
    /\ Len(episode_data.articles) = 2
    /\ episode_data.transition = <<TransitionUrl(1), TransitionUrl(2)>>
    /\ episode_data.articles[1].intro_audio_url = Absent
    /\ episode_data.articles[2].intro_audio_url = << >>
    /\ Len(playlist) = 5
    /\ playlist[1].type = "intro"
    /\ playlist[2].type = "article"
    /\ playlist[3].type = "transition"
    /\ playlist[4].type = "article"
    /\ playlist[5].type = "outro"

\* the positions of the playlist that hold a transition
TransitionsAt == {k \in 1..Len(playlist) : playlist[k].type = "transition"}

NotTransition(seg) == seg.type # "transition"

\* the episode with no transition reference stored at all
WithoutTransitions(ep) ==
    [ep EXCEPT !.transition = [k \in 1..Len(ep.transition) |-> Absent]]

\* C13: at every point of the assembly the playlist holds at most
\* len(articles) - 1 transitions (none with zero or one article); every
\* transition in it is the one of a boundary between two articles, never the
\* one stored for the boundary after the last article; and the playlist
\* returned has, apart from its transitions, exactly the segments the episode
\* would have with no transition at all: a missing transition omits that
\* segment only.
C13_TransitionsBounded ==
    LET n == Len(episode_data.articles)
    IN  /\ Cardinality(TransitionsAt) <= (IF n = 0 THEN 0 ELSE n - 1)
        /\ \A k \in TransitionsAt :
              \E b \in 1..(n - 1) :
                  /\ playlist[k].audio_url = TransitionUrl(b)
                  /\ episode_data.transition[b] = TransitionUrl(b)
        /\ pc = "Done" =>
              LET rest == SelectSeq(playlist, NotTransition)
                  want == Restrict(CanonicalSlots(WithoutTransitions(episode_data)))
              IN  /\ Len(rest) = Len(want)
                  /\ \A k \in 1..Len(want) :
                        /\ rest[k].type = want[k].type
                        /\ rest[k].audio_url = want[k].ref
                  /\ Cardinality(TransitionsAt) =
                        Cardinality({b \in 1..(n - 1) : Present(episode_data.transition[b])})

\* two articles, no transition between them, one stored for the boundary
\* after the second: both articles are in the playlist and no transition is
C13_Witness ==
    /\ pc = "Done"
    /\ Len(episode_data.articles) = 2
    /\ episode_data.transition = <<Absent, TransitionUrl(2)>>
    /\ TransitionsAt = {}
    /\ \E k \in 1..Len(playlist) : playlist[k].audio_url = ArticleUrl(1)
    /\ \E k \in 1..Len(playlist) : playlist[k].audio_url = ArticleUrl(2)

\* every article of the episode has its 'id'
ArticlesHaveIds ==
    \A k \in 1..Len(episode_data.articles) : episode_data.articles[k].id # Absent

\* C14: for every episode whose articles carry their id, whatever references
\* are missing or empty and however many articles there are (none included),
\* create_playlist reaches its end and returns a playlist; it never stops
\* short of it.
C14_AssemblyTerminates == ArticlesHaveIds ~> (pc = "Done")

\* two articles and not one reference that is there and not empty: the
\* assembly ends with the empty playlist
C14_Witness ==
    /\ pc = "Done"
    /\ Len(episode_data.articles) = 2
    /\ ~Present(episode_data.intro_audio_url)
    /\ ~Present(episode_data.outro_audio_url)
    /\ \A k \in 1..2 : /\ ~Present(episode_data.articles[k].intro_audio_url)
                       /\ ~Present(episode_data.articles[k].audio_url)
    /\ ~Present(episode_data.transition[1])
    /\ playlist = << >>

\* C15: at every point of the assembly each article_intro and each article
\* segment of the playlist carries the id of the article whose reference it
\* holds, and the intro, transition and outro segments have no article_id.
C15_SegmentsTaggedWithArticleId ==
    \A k \in 1..Len(playlist) :
        LET seg == playlist[k]
        IN  IF seg.type \in {"article_intro", "article"}
            THEN /\ "article_id" \in DOMAIN seg
                 /\ \E j \in 1..Len(episode_data.articles) :
                       /\ seg.article_id = episode_data.articles[j].id
                       /\ seg.article_id = ArticleIds[j]
                       /\ seg.audio_url = (IF seg.type = "article"
                                           THEN episode_data.articles[j].audio_url
                                           ELSE episode_data.articles[j].intro_audio_url)
                       /\ seg.audio_url \in {ArticleUrl(j), ArticleIntroUrl(j)}
            ELSE "article_id" \notin DOMAIN seg

C15_Witness ==
    /\ pc = "Done"
    /\ Len(playlist) = 5
    /\ playlist[1].type = "intro"
    /\ playlist[2] = [type |-> "article", article_id |-> ArticleIds[1],
                      audio_url |-> ArticleUrl(1)]
    /\ playlist[3].type = "transition"
    /\ playlist[4] = [type |-> "article_intro", article_id |-> ArticleIds[2],
                      audio_url |-> ArticleIntroUrl(2)]
    /\ playlist[5].type = "outro"

----------------------------------------------------------------------------
(* The object store as seen by generate_presigned_url *)

\* s3_client.head_object(Bucket=S3_BUCKET, Key=key): "ok", or the exception
\* raised: "NoSuchKey" (ClientError 404), "ClientError" (any other
\* ClientError: 403, 500, 503) or "Exception" (not a ClientError, e.g.
\* EndpointConnectionError)
HeadObject(key) ==
    IF outage = "conn" THEN "Exception"
    ELSE IF outage = "client" THEN "ClientError"
    ELSE IF key \in denied THEN (IF outage = "flaky" THEN "Exception" ELSE "ClientError")
    ELSE IF key \in exists THEN "ok"
    ELSE "NoSuchKey"

\* the ExpiresIn build_audio_url asks for (config.py line 134)
Expiration == 3600

\* s3_client.generate_presigned_url('get_object', ...): the signed URL of key
PresignedUrl(key) == HTTPS \o BucketBase \o key \o S(SigQuery)

\* what one call of a function did and returned: ret the value returned (None
\* when raised), raised whether an exception left the function, n the number
\* of head_object calls, hit the keys whose head_object succeeded, signed the
\* <<Key, ExpiresIn>> of the signing calls
Outcome(ret, raised, n, hit, signed) ==
    [ret |-> ret, raised |-> raised, n |-> n, hit |-> hit, signed |-> signed]

\* generate_presigned_url that probes every candidate before it signs one of
\* those that are there
GeneratePresignedUrl_ProbesAll(key, expiration) ==
    LET cands == CandidateSet(CleanKey(key))
        ok == {k \in cands : HeadObject(k) = "ok"}
    IN  IF ok = {} THEN {Outcome(None, FALSE, Cardinality(cands), {}, {})}
        ELSE {Outcome(PresignedUrl(k), FALSE, Cardinality(cands), ok, {<<k, expiration>>}) :
                 k \in ok}

\* generate_presigned_url that signs a candidate without probing it first
GeneratePresignedUrl_SignsUnprobed(key, expiration) ==
    {Outcome(PresignedUrl(k), FALSE, 0, {}, {<<k, expiration>>}) :
         k \in CandidateSet(CleanKey(key))}

\* audio_proxy.generate_presigned_url, lines 33-84, in Lambda.  The loop of
\* line 62 runs over list(set(...)): any candidate may come first.  It stops at
\* the first key whose head_object does not raise a ClientError: a key that is
\* there is signed and its URL returned, any other exception leaves the
\* function.  Before that key any number of the failing candidates was probed.
\* With no such key every candidate is probed and None is returned.
GeneratePresignedUrl(key, expiration) ==
    LET cleaned == CleanKey(key)
        cands == CandidateSet(cleaned)
        ok == {k \in cands : HeadObject(k) = "ok"}
        exc == {k \in cands : HeadObject(k) = "Exception"}
        failing == cands \ (ok \cup exc)
        before == 0..Cardinality(failing)
    IN  {Outcome(PresignedUrl(k), FALSE, b + 1, {k}, {<<k, expiration>>}) :
             k \in ok, b \in before}
        \cup {Outcome(None, TRUE, b + 1, {}, {}) : k \in exc, b \in before}
        \cup (IF ok \cup exc = {}
              THEN {Outcome(None, FALSE, Cardinality(cands), {}, {})}
              ELSE {})

----------------------------------------------------------------------------
(* config.build_audio_url *)

\* API_DOMAIN.rstrip('/')
RECURSIVE RStripSlash(_)
RStripSlash(s) ==
    IF s # << >> /\ s[Len(s)] = Slash THEN RStripSlash(SubSeq(s, 1, Len(s) - 1)) ELSE s

\* a fallback that gives no URL at all
FallbackUrl_Omit(key) == None

\* lines 142-164: the API path returned when no signed URL was produced
FallbackUrl(key) ==
    LET path == IF StartsWith(key, S(Slash)) THEN Drop(key, 1) ELSE key
        audio_path == IF StartsWith(path, AudioSlash) THEN path ELSE AudioSlash \o path
    IN  IF API_DOMAIN # << >> THEN RStripSlash(API_DOMAIN) \o S(Slash) \o audio_path
        ELSE audio_path

\* build_audio_url that returns None when no signed URL was produced
BuildAudioUrl_NoFallback(key) ==
    IF Falsy(key) THEN {Outcome(None, FALSE, 0, {}, {})}
    ELSE IF IsHttpUrl(key) THEN {Outcome(key, FALSE, 0, {}, {})}
    ELSE GeneratePresignedUrl(key, Expiration)

\* lines 105-164 in Lambda (IS_LAMBDA): the outcomes of build_audio_url(key)
BuildAudioUrl(key) ==
    IF Falsy(key) THEN {Outcome(None, FALSE, 0, {}, {})}
    ELSE IF IsHttpUrl(key) THEN {Outcome(key, FALSE, 0, {}, {})}
    ELSE {IF o.raised \/ o.ret # None THEN o
          ELSE Outcome(FallbackUrl(key), FALSE, o.n, o.hit, o.signed) :
              o \in GeneratePresignedUrl(key, Expiration)}

----------------------------------------------------------------------------
(* api_handler.get_playlist in Lambda *)

\* the tokens of the model that start with 'http'
HttpTokens == {"http:", "https:"}

\* '/audio/http' in url
ContainsAudioHttp(url) ==
    \E k \in 1..(Len(url) - 3) :
        SubSeq(url, k, k + 2) = SlashAudioSlash /\ url[k + 3] \in HttpTokens

\* index of the first occurrence of p in s, 0 when there is none
FirstAt(s, p) ==
    LET at == {k \in 1..(Len(s) + 1 - Len(p)) : SubSeq(s, k, k + Len(p) - 1) = p}
    IN  IF at = {} THEN 0 ELSE CHOOSE k \in at : \A m \in at : k <= m

\* s.split(p)[1] for an s that contains p
SplitSecond(s, p) ==
    LET rest == Drop(s, FirstAt(s, p) + Len(p) - 1)
    IN  IF FirstAt(rest, p) = 0 THEN rest ELSE SubSeq(rest, 1, FirstAt(rest, p) - 1)

\* lines 397-401: the converted URL still wraps a URL after /audio/
NeedsFinalFix(url) ==
    /\ ~Falsy(url)
    /\ ContainsAudioHttp(url)
    /\ IsHttpUrl(SplitSecond(url, SlashAudioSlash))

\* two calls one after the other
Then(o1, o2) ==
    Outcome(o2.ret, o2.raised, o1.n + o2.n, o1.hit \cup o2.hit, o1.signed \cup o2.signed)

\* lines 359-404: the outcomes of converting one reference that is a str, is
\* not empty and is not a signed URL
ConvertReference(original_url) ==
    UNION { IF ~o1.raised /\ NeedsFinalFix(o1.ret)
            THEN {Then(o1, o2) :
                     o2 \in BuildAudioUrl(SplitLast(SplitSecond(o1.ret, SlashAudioSlash)))}
            ELSE {o1} :
            o1 \in BuildAudioUrl(PlaylistAudioKey(original_url)) }

\* the references of the model
SignedRef == PresignedUrl(ExampleKey)
BucketRef == ExampleBucketUrl
AudioPathRef == SlashAudioSlash \o <<"ep1.mp3">>
BareRef == <<"ep1.mp3">>
DoubleWrapRef == SlashAudioSlash \o HTTP \o <<"evil", Slash, "ep1.mp3">>
ForeignRef == HTTPS \o <<"evil", Slash, "ep1.mp3">>
WrappedRelativeRef == AudioSlash \o HTTPS \o <<"evil", Slash, "ep1.mp3">>

RawRefs ==
    { << >>, None, NotAStr, SignedRef, BucketRef, AudioPathRef, BareRef,
      DoubleWrapRef, ForeignRef, WrappedRelativeRef }

\* a playlist item: a dict with its audio_url and its other fields
Item(url) == [type |-> "article", audio_url |-> url]
Items == {Item(u) : u \in RawRefs}

\* the metadata object: with a playlist of up to MaxItems items, or without
Metadatas ==
    {[episode_id |-> "e1", playlist |-> l] : l \in SeqsUpTo(Items, MaxItems)}
        \cup {[episode_id |-> "e1"]}

\* the keys of the bucket that are there or whose probe is refused
StoreKeys ==
    { <<"ep1.mp3">>, <<"audio", Slash, "ep1.mp3">>, ExampleKey }

\* config.API_DOMAIN: unset, or a domain (written with a trailing slash)
ApiDomains == { << >>, HTTPS \o <<"api.example.com", Slash>> }

\* the keys whose probe the store may refuse
DeniableKeys == { <<"ep1.mp3">> }

InitStore ==
    /\ outage \in {"none", "client", "conn", "flaky"}
    /\ exists \in SUBSET StoreKeys
    /\ denied \in SUBSET (DeniableKeys \ exists)
    /\ outage \in {"client", "conn"} => exists = {} /\ denied = {}
    /\ outage = "flaky" => denied # {}
    /\ API_DOMAIN \in ApiDomains
    /\ IS_LAMBDA = TRUE

InitPlaylist ==
    /\ pc = "get_playlist"
    /\ InitStore
    /\ ProxyIdle
    /\ stored \in Metadatas
    /\ metadata = << >>
    /\ idx = 0 /\ akeys = << >> /\ probes = NoProbes /\ signs = {}
    /\ resp = NoResp
    /\ raw = << >> /\ audio_key = NoKey /\ s3_keys_to_try = << >>
    /\ episode_data = << >> /\ i = 0 /\ playlist = << >>

\* config.CORS_HEADERS
CORS_HEADERS ==
    [ h \in {"Access-Control-Allow-Origin", "Access-Control-Allow-Headers",
             "Access-Control-Allow-Methods"} |->
        CASE h = "Access-Control-Allow-Origin" -> "*"
          [] h = "Access-Control-Allow-Headers" -> "Content-Type"
          [] h = "Access-Control-Allow-Methods" -> "OPTIONS,GET" ]

\* build_response(status_code, body)
Response(status_code, body) ==
    [statusCode |-> status_code, headers |-> CORS_HEADERS, body |-> body]

\* lines 335-339: the metadata object is read
LoadMetadata ==
    /\ pc = "get_playlist"
    /\ metadata' = stored
    /\ pc' = "convert"
    /\ UNCHANGED <<stored, idx, akeys, probes, signs, resp,
                   keyVars, assemblyVars, storeVars, proxyVars>>

\* lines 336-337, 438-441: get_object raises ClientError
MetadataNotFound ==
    /\ pc = "get_playlist"
    /\ resp' = Response(404, [error |-> "Metadata for episode e1 not found"])
    /\ pc' = "done"
    /\ UNCHANGED <<stored, metadata, idx, akeys, probes, signs,
                   keyVars, assemblyVars, storeVars, proxyVars>>

\* lines 336-339, 442-444: get_object or json.loads raises another exception
MetadataError ==
    /\ pc = "get_playlist"
    /\ resp' = Response(500, [error |-> "Failed to get metadata"])
    /\ pc' = "done"
    /\ UNCHANGED <<stored, metadata, idx, akeys, probes, signs,
                   keyVars, assemblyVars, storeVars, proxyVars>>

Converting ==
    /\ pc = "convert"
    /\ "playlist" \in DOMAIN metadata
    /\ idx < Len(metadata.playlist)

\* lines 345, 351-357: an item without a reference, or with a signed URL, is
\* left as it is
SkipItem ==
    /\ Converting
    /\ LET original_url == metadata.playlist[idx + 1].audio_url
       IN  Falsy(original_url) \/ (original_url # NotAStr /\ IsSignedUrl(original_url))
    /\ idx' = idx + 1
    /\ akeys' = Append(akeys, NoKey)
    /\ probes' = NoProbes
    /\ signs' = {}
    /\ UNCHANGED <<pc, stored, metadata, resp, keyVars, assemblyVars, storeVars, proxyVars>>

\* line 362 on a value that is no str: AttributeError, caught at lines 442-444
ItemNotAStr ==
    /\ Converting
    /\ metadata.playlist[idx + 1].audio_url = NotAStr
    /\ resp' = Response(500, [error |-> "Failed to get metadata"])
    /\ pc' = "done"
    /\ akeys' = Append(akeys, NoKey)
    /\ probes' = NoProbes
    /\ signs' = {}
    /\ UNCHANGED <<stored, metadata, idx, keyVars, assemblyVars, storeVars, proxyVars>>

\* lines 346-404 for one item whose reference is converted; an exception that
\* leaves build_audio_url is caught at lines 442-444
ConvertItem ==
    /\ Converting
    /\ LET original_url == metadata.playlist[idx + 1].audio_url
       IN  /\ ~Falsy(original_url) /\ original_url # NotAStr
           /\ ~IsSignedUrl(original_url)
           /\ \E o \in ConvertReference(original_url) :
                 /\ probes' = [n |-> o.n, hit |-> o.hit]
                 /\ signs' = o.signed
                 /\ akeys' = Append(akeys, PlaylistAudioKey(original_url))
                 /\ IF o.raised
                    THEN /\ resp' = Response(500, [error |-> "Failed to get metadata"])
                         /\ pc' = "done"
                         /\ UNCHANGED <<metadata, idx>>
                    ELSE /\ metadata' =
                               [metadata EXCEPT !.playlist[idx + 1].audio_url = o.ret]
                         /\ idx' = idx + 1
                         /\ UNCHANGED <<pc, resp>>
    /\ UNCHANGED <<stored, keyVars, assemblyVars, storeVars, proxyVars>>

\* a return that lists the items last converted first
RECURSIVE Reversed(_)
Reversed(s) == IF s = << >> THEN << >> ELSE Append(Reversed(Tail(s)), Head(s))

ReturnPlaylist_Reversed ==
    /\ pc = "convert"
    /\ "playlist" \in DOMAIN metadata => idx = Len(metadata.playlist)
    /\ resp' = Response(200, [playlist |-> IF "playlist" \in DOMAIN metadata
                                           THEN Reversed(metadata.playlist) ELSE << >>])
    /\ pc' = "done"
    /\ UNCHANGED <<stored, metadata, idx, akeys, probes, signs,
                   keyVars, assemblyVars, storeVars, proxyVars>>

\* a return that keeps only the audio_url of each item
ReturnPlaylist_UrlsOnly ==
    /\ pc = "convert"
    /\ "playlist" \in DOMAIN metadata => idx = Len(metadata.playlist)
    /\ resp' = Response(200, [playlist |-> IF "playlist" \in DOMAIN metadata
                                           THEN [k \in 1..Len(metadata.playlist) |->
                                                   [audio_url |-> metadata.playlist[k].audio_url]]
                                           ELSE << >>])
    /\ pc' = "done"
    /\ UNCHANGED <<stored, metadata, idx, akeys, probes, signs,
                   keyVars, assemblyVars, storeVars, proxyVars>>

\* a return that saves the converted object in place of the stored one
ReturnPlaylist_WritesBack ==
    /\ pc = "convert"
    /\ "playlist" \in DOMAIN metadata => idx = Len(metadata.playlist)
    /\ resp' = Response(200, [playlist |-> IF "playlist" \in DOMAIN metadata
                                           THEN metadata.playlist ELSE << >>])
    /\ stored' = metadata
    /\ pc' = "done"
    /\ UNCHANGED <<metadata, idx, akeys, probes, signs,
                   keyVars, assemblyVars, storeVars, proxyVars>>

\* lines 446-451
ReturnPlaylist ==
    /\ pc = "convert"
    /\ "playlist" \in DOMAIN metadata => idx = Len(metadata.playlist)
    /\ resp' = Response(200, [playlist |-> IF "playlist" \in DOMAIN metadata
                                           THEN metadata.playlist ELSE << >>])
    /\ pc' = "done"
    /\ UNCHANGED <<stored, metadata, idx, akeys, probes, signs,
                   keyVars, assemblyVars, storeVars, proxyVars>>

NextPlaylist ==
    \/ LoadMetadata
    \/ MetadataNotFound
    \/ MetadataError
    \/ SkipItem
    \/ ItemNotAStr
    \/ ConvertItem
    \/ ReturnPlaylist

SpecPlaylist == InitPlaylist /\ [][NextPlaylist]_vars

----------------------------------------------------------------------------
(* Claims about get_playlist (specification SpecPlaylist) *)

\* the item converted last, 0 before the first
Last == Len(akeys)
\* the reference of item k as stored, and as converted
StoredUrl(k) == stored.playlist[k].audio_url
ConvertedUrl(k) == metadata.playlist[k].audio_url
\* item k went through the conversion without an exception
Converted(k) == k <= idx
Returned == pc = "done" /\ resp.statusCode = 200 /\ "playlist" \in DOMAIN stored

\* a str that is a URL carrying the signature marker (written out)
LooksSigned(u) ==
    /\ u # None /\ u # NotAStr
    /\ StartsWith(u, HTTPS) \/ StartsWith(u, HTTP)
    /\ \E k \in 1..Len(u) : u[k] = SigQuery

\* a str that is not empty
NonEmptyStr(u) == u # None /\ u # NotAStr /\ u # << >>

\* every candidate of the key is cleanly absent: each probe ends in NoSuchKey
AllCleanlyAbsent(key) ==
    \A c \in Range(CandidateList(CleanKey(key))) : HeadObject(c) = "NoSuchKey"

\* C2: a reference that is already a signed URL comes back unchanged, with no
\* key extracted, no head_object call and no signing call, from get_playlist
\* and from build_audio_url.
C2_SignedUrlIsNoOp ==
    (Last >= 1 /\ LooksSigned(StoredUrl(Last))) =>
        /\ akeys[Last] = NoKey
        /\ probes = NoProbes
        /\ signs = {}
        /\ Converted(Last)
        /\ ConvertedUrl(Last) = StoredUrl(Last)
        /\ Returned => resp.body.playlist[Last].audio_url = StoredUrl(Last)
        /\ BuildAudioUrl(StoredUrl(Last)) = {Outcome(StoredUrl(Last), FALSE, 0, {}, {})}

C2_Witness ==
    /\ Returned
    /\ Last = 2
    /\ StoredUrl(1) = BareRef
    /\ StoredUrl(2) = SignedRef
    /\ exists = StoreKeys
    /\ resp.body.playlist[2].audio_url = SignedRef
    /\ probes = NoProbes /\ signs = {}

\* C3: of the candidates that exist, the one listed first (key as-is, audio/,
\* data/audio/, narration/, data/narration/, then the basename variants) is
\* the key that gets signed.
C3_EarliestListedIsSigned ==
    \A s \in signs :
        LET list == CandidateList(CleanKey(akeys[Last]))
            at == {k \in 1..Len(list) : list[k] = s[1]}
        IN  \A k \in at : \A m \in 1..(k - 1) :
                list[m] = s[1] \/ HeadObject(list[m]) # "ok"

UnderAudio(key) ==
    LET path == IF key[1] = Slash THEN Drop(key, 1) ELSE key
    IN  IF Len(path) >= 2 /\ path[1] = "audio" /\ path[2] = Slash
        THEN Drop(path, 2) ELSE path

NeedsProbe(k) ==
    /\ NonEmptyStr(StoredUrl(k)) /\ ~LooksSigned(StoredUrl(k))
    /\ PlaylistAudioKey(StoredUrl(k)) # << >>
    /\ ~IsHttpUrl(PlaylistAudioKey(StoredUrl(k)))

\* C5: when every existence probe made for a playlist fails with a store
\* error other than a clean not-found, the request fails as a whole: the
\* response is never a 200 playlist.
C5_OutageFailsRequest ==
    (/\ pc = "done"
     /\ outage \in {"client", "conn"}
     /\ "playlist" \in DOMAIN stored
     /\ \E k \in 1..Len(stored.playlist) : NeedsProbe(k)) =>
        resp.statusCode # 200

\* a URL outside the bucket, without the signature marker
IsForeignUrl(u) ==
    /\ NonEmptyStr(u)
    /\ StartsWith(u, HTTPS) \/ StartsWith(u, HTTP)
    /\ ~LooksSigned(u)
    /\ ~Contains(u, BucketBase)

Loaded ==
    /\ "playlist" \in DOMAIN stored
    /\ \/ pc = "convert"
       \/ pc = "done" /\ (resp.statusCode = 200 \/ akeys # << >>)

\* C11: with the store available, a failure while resolving one reference
\* (a probe error, a malformed reference value) stays with that reference:
\* the request ends with 200 and a playlist that has every item of the stored
\* one.
C11_FailureIsContained ==
    (pc = "done" /\ Loaded /\ outage = "none") =>
        /\ resp.statusCode = 200
        /\ Len(resp.body.playlist) = Len(stored.playlist)

\* item k holds a reference that is resolved through the store and whose
\* candidates are all cleanly absent
MissingAt(k) ==
    /\ NonEmptyStr(StoredUrl(k)) /\ ~LooksSigned(StoredUrl(k))
    /\ NonEmptyStr(akeys[k]) /\ akeys[k] # NoKey /\ ~IsHttpUrl(akeys[k])
    /\ AllCleanlyAbsent(akeys[k])

\* C16 (as claimed): a reference none of whose candidates exists resolves to
\* 'omit' (build_audio_url gives no URL), each time it is resolved.
C16_MissingResolvesToOmit ==
    Returned =>
        \A k \in 1..Len(stored.playlist) :
            MissingAt(k) => resp.body.playlist[k].audio_url = None

\* C16 (amended): a reference none of whose candidates exists resolves the
\* same way each time it is resolved against the same store, in whatever
\* order the candidates are enumerated: every candidate is probed, nothing is
\* signed, and the outcome is the one API path [API_DOMAIN/]audio/<key> of
\* the key, not 'omit'.  Two items of a playlist that hold the same such
\* reference come back with the same URL.
C16_MissingResolvesSame ==
    Returned =>
        \A j, k \in 1..Len(stored.playlist) :
            (MissingAt(j) /\ MissingAt(k) /\ StoredUrl(j) = StoredUrl(k)) =>
                LET outcomes == BuildAudioUrl(akeys[k])
                    url == resp.body.playlist[k].audio_url
                IN  /\ Cardinality({o.ret : o \in outcomes}) = 1
                    /\ \A o \in outcomes :
                          /\ ~o.raised /\ o.signed = {} /\ o.hit = {}
                          /\ o.n = Cardinality(CandidateSet(CleanKey(akeys[k])))
                          /\ o.ret # None
                    /\ url = resp.body.playlist[j].audio_url
                    /\ url # None /\ ~LooksSigned(url)
                    /\ StartsWith(url, API_DOMAIN \o AudioSlash)

C16_Witness ==
    /\ Returned
    /\ exists = {} /\ denied = {} /\ outage = "none" /\ API_DOMAIN = << >>
    /\ Len(stored.playlist) = 2
    /\ StoredUrl(1) = BareRef
    /\ StoredUrl(2) = BareRef
    /\ resp.body.playlist[1].audio_url = AudioSlash \o BareRef
    /\ resp.body.playlist[2].audio_url = AudioSlash \o BareRef
    /\ probes.n = Cardinality(CandidateSet(BareRef))

\* C17: in production mode every signing call made while a reference is
\* resolved is for a key whose head_object call succeeded in that same
\* resolution, with ExpiresIn = 3600, so no key whose probe failed is ever
\* signed; and a signed URL that build_audio_url produced for an item is the
\* signed URL of such a key.
C17_SignedOnlyAfterProbe ==
    /\ \A s \in signs :
          /\ s[1] \in probes.hit
          /\ HeadObject(s[1]) = "ok"
          /\ s[2] = 3600
    /\ \A c \in probes.hit : HeadObject(c) = "ok"
    /\ (Last >= 1 /\ Converted(Last) /\ NonEmptyStr(StoredUrl(Last))
        /\ ~LooksSigned(StoredUrl(Last)) /\ LooksSigned(ConvertedUrl(Last))) =>
          \E s \in signs : ConvertedUrl(Last) = PresignedUrl(s[1])

\* /audio/ep1.mp3 with ep1.mp3 refused by the store and audio/ep1.mp3 there:
\* only audio/ep1.mp3 is signed, for one hour
C17_Witness ==
    /\ Returned
    /\ Last = 1
    /\ StoredUrl(1) = AudioPathRef
    /\ exists = {<<"audio", Slash, "ep1.mp3">>}
    /\ denied = {<<"ep1.mp3">>}
    /\ signs = {<< <<"audio", Slash, "ep1.mp3">>, 3600 >>}
    /\ resp.body.playlist[1].audio_url = PresignedUrl(<<"audio", Slash, "ep1.mp3">>)

\* C18: the playlist returned has the items of the stored playlist, each at
\* its position: item k is the stored item k with its reference left as it
\* was (empty or signed) or replaced by a result of converting that very
\* reference, whichever objects exist, whichever probes fail and however many
\* candidates are tried for any item.
C18_OrderFollowsMetadata ==
    Returned =>
        /\ Len(resp.body.playlist) = Len(stored.playlist)
        /\ \A k \in 1..Len(stored.playlist) :
              LET was == stored.playlist[k]
                  is == resp.body.playlist[k]
              IN  /\ is.type = was.type
                  /\ DOMAIN is = DOMAIN was
                  /\ IF Falsy(was.audio_url) \/ LooksSigned(was.audio_url)
                     THEN is.audio_url = was.audio_url
                     ELSE \E c \in CandidateSet(CleanKey(akeys[k])) \cup {akeys[k]} :
                             \/ is.audio_url = PresignedUrl(c) /\ c \in exists
                             \/ is.audio_url =
                                   (IF API_DOMAIN = << >> THEN << >>
                                    ELSE RStripSlash(API_DOMAIN) \o <<Slash>>)
                                   \o AudioSlash \o UnderAudio(c)

\* a foreign URL first, a signed URL second, with ep1.mp3 in the bucket: the
\* first item is resolved through the store, the second is not, and both
\* stay where they were
C18_Witness ==
    /\ Returned
    /\ Len(stored.playlist) = 2
    /\ StoredUrl(1) = ForeignRef
    /\ StoredUrl(2) = SignedRef
    /\ exists = {BareRef}
    /\ resp.body.playlist[1].audio_url = PresignedUrl(BareRef)
    /\ resp.body.playlist[2].audio_url = SignedRef

\* C20: for a reference that is empty or null get_playlist extracts no key,
\* makes no head_object call and no signing call and leaves the item as it
\* is; build_audio_url called with such a value returns None, also without
\* touching the store.
C20_EmptyReferenceIsSkipped ==
    (Last >= 1 /\ StoredUrl(Last) \in {<< >>, None}) =>
        /\ akeys[Last] = NoKey
        /\ probes = NoProbes
        /\ signs = {}
        /\ Converted(Last)
        /\ ConvertedUrl(Last) = StoredUrl(Last)
        /\ pc = "convert" \/ resp.statusCode = 200
        /\ Returned => resp.body.playlist[Last] = stored.playlist[Last]
        /\ \A o \in BuildAudioUrl(StoredUrl(Last)) :
              o.ret = None /\ ~o.raised /\ o.n = 0 /\ o.signed = {}

\* a null and an empty reference, with every object of the model in the
\* bucket: both items come back untouched
C20_Witness ==
    /\ Returned
    /\ Last = 2
    /\ StoredUrl(1) = None
    /\ StoredUrl(2) = << >>
    /\ exists = StoreKeys
    /\ resp.body.playlist = stored.playlist
    /\ akeys = <<NoKey, NoKey>>

\* C21: once a probe has confirmed a candidate of a reference, no other
\* candidate of that reference is probed: exactly one probe succeeded, it is
\* the one whose key is signed, and every other probe made for the reference
\* was for a candidate that is not there, so that the number of probes is at
\* most the number of such candidates plus one.
C21_EarlyExitOnFirstHit ==
    (Last >= 1 /\ probes.hit # {}) =>
        LET cands == CandidateSet(CleanKey(akeys[Last]))
            failing == {c \in cands : HeadObject(c) # "ok"}
        IN  /\ Cardinality(probes.hit) = 1
            /\ probes.hit \subseteq cands
            /\ probes.n <= Cardinality(failing) + 1
            /\ signs = {<<c, 3600>> : c \in probes.hit}

\* ep1.mp3 with all three of its candidates in the bucket: one probe is made
C21_Witness ==
    /\ Returned
    /\ Last = 1
    /\ StoredUrl(1) = BareRef
    /\ exists = StoreKeys
    /\ probes.n = 1
    /\ probes.hit = {ExampleKey}
    /\ resp.body.playlist[1].audio_url = PresignedUrl(ExampleKey)

\* a candidate of the key of item k is there and its own probe succeeds
SomeCandidateAnswers(k) ==
    \E c \in CandidateSet(CleanKey(akeys[k])) : HeadObject(c) = "ok"

\* C22: a probe that fails with a store error for one candidate counts as
\* that candidate not being there: whenever a candidate of the reference is
\* there and its own probe succeeds, the reference resolves to a signed URL
\* of such a candidate, whatever errors the probes of the other candidates
\* end in, and the request goes on.
C22_ProbeErrorIsNonExistence ==
    (/\ Last >= 1
     /\ NonEmptyStr(StoredUrl(Last)) /\ ~LooksSigned(StoredUrl(Last))
     /\ akeys[Last] # NoKey /\ NonEmptyStr(akeys[Last])
     /\ SomeCandidateAnswers(Last)) =>
        /\ Converted(Last)
        /\ \E c \in CandidateSet(CleanKey(akeys[Last])) :
              /\ HeadObject(c) = "ok"
              /\ ConvertedUrl(Last) = PresignedUrl(c)
        /\ pc = "done" => resp.statusCode = 200

\* the case of C22 on which the code agrees with the claim: the probe of
\* ep1.mp3 is refused with a ClientError, audio/ep1.mp3 is there and is signed
\* after the refused probe
C22_ClientErrorSkipped ==
    /\ Returned
    /\ Last = 1
    /\ StoredUrl(1) = BareRef
    /\ outage = "none"
    /\ denied = {BareRef}
    /\ exists = {<<"audio", Slash, "ep1.mp3">>}
    /\ probes.n >= 2
    /\ resp.body.playlist[1].audio_url = PresignedUrl(<<"audio", Slash, "ep1.mp3">>)

\* an item without its audio_url
OtherFields(item) == [f \in DOMAIN item \ {"audio_url"} |-> item[f]]

\* C26: the playlist returned has as many items as the stored one, item k of
\* the one being item k of the other with every field but audio_url as it was
\* stored, and an audio_url that was not converted as it was stored too;
\* metadata read without a playlist field is answered with status 200 and an
\* empty playlist.
C26_OnlyAudioUrlChanges ==
    /\ Returned =>
          /\ Len(resp.body.playlist) = Len(stored.playlist)
          /\ DOMAIN resp.body = {"playlist"}
          /\ \A k \in 1..Len(stored.playlist) :
                /\ DOMAIN resp.body.playlist[k] = DOMAIN stored.playlist[k]
                /\ OtherFields(resp.body.playlist[k]) = OtherFields(stored.playlist[k])
                /\ akeys[k] = NoKey => resp.body.playlist[k] = stored.playlist[k]
    /\ (pc = "done" /\ metadata # << >> /\ "playlist" \notin DOMAIN stored) =>
          resp = Response(200, [playlist |-> << >>])

\* a bucket URL first, a null reference second: two items come back, the first
\* with the signed URL, the second as stored, both with their type
C26_Witness ==
    /\ Returned
    /\ Len(stored.playlist) = 2
    /\ StoredUrl(1) = BucketRef
    /\ StoredUrl(2) = None
    /\ exists = {ExampleKey}
    /\ resp.body.playlist = << [type |-> "article", audio_url |-> PresignedUrl(ExampleKey)],
                               [type |-> "article", audio_url |-> None] >>

\* metadata without a playlist field has been answered
C26_NoPlaylistField ==
    /\ pc = "done"
    /\ metadata # << >>
    /\ "playlist" \notin DOMAIN stored
    /\ resp.statusCode = 200

----------------------------------------------------------------------------
(* api_handler.get_episode in Lambda *)

\* what converting one reference field did: val the value the field holds
\* afterwards, raised whether an exception left build_audio_url, signed the
\* signing calls made
FieldResult(val, raised, signed) == [val |-> val, raised |-> raised, signed |-> signed]

\* ConvertField that hands every reference that is not signed to build_audio_url
ConvertField_EveryForm(v) ==
    IF ~Present(v) \/ IsSignedUrl(v) THEN {FieldResult(v, FALSE, {})}
    ELSE {FieldResult(o.ret, o.raised, o.signed) : o \in BuildAudioUrl(PlaylistAudioKey(v))}

\* lines 108-123 (126-141, 144-156, 159-171): a reference that is there, is not
\* signed and is an https URL of the bucket is replaced by what build_audio_url
\* returns for its key; any other reference is left as it is
ConvertField(v) ==
    IF ~Present(v) \/ IsSignedUrl(v) \/ EpisodeAudioKey(v) = NoKey
    THEN {FieldResult(v, FALSE, {})}
    ELSE {FieldResult(o.ret, o.raised, o.signed) : o \in BuildAudioUrl(EpisodeAudioKey(v))}

\* lines 106-141, one iteration: audio_url, then english_audio_url unless the
\* 'continue' of line 114 ended the iteration
ConvertArticleFields(article) ==
    UNION { IF a.raised \/ (Present(article.audio_url) /\ IsSignedUrl(article.audio_url))
            THEN {[article |-> [article EXCEPT !.audio_url = a.val],
                   raised |-> a.raised, signed |-> a.signed]}
            ELSE {[article |-> [article EXCEPT !.audio_url = a.val,
                                               !.english_audio_url = e.val],
                   raised |-> e.raised, signed |-> a.signed \cup e.signed] :
                      e \in ConvertField(article.english_audio_url)} :
            a \in ConvertField(article.audio_url) }

HttpBucketRef == HTTP \o BucketBase \o ExampleKey

\* the articles of the model, by their two references
EpisodeArticle(audio_url, english_audio_url) ==
    [id |-> S("id1"), audio_url |-> audio_url, english_audio_url |-> english_audio_url]

EpisodeArticles ==
    { EpisodeArticle(<< >>, Absent),
      EpisodeArticle(SignedRef, BucketRef),
      EpisodeArticle(BucketRef, Absent),
      EpisodeArticle(BucketRef, BucketRef),
      EpisodeArticle(AudioPathRef, Absent) }

EpisodeObjects ==
    [episode_id : {"e1"},
     intro_audio_url : {Absent, BucketRef, AudioPathRef, ForeignRef},
     outro_audio_url : {BucketRef, BareRef, HttpBucketRef},
     articles : SeqsUpTo(EpisodeArticles, MaxEpisodeArticles)]

EpisodeStoreKeys == { <<"audio", Slash, "ep1.mp3">>, ExampleKey }

InitEpisode ==
    /\ pc = "get_episode"
    /\ outage \in {"none", "client", "conn"}
    /\ exists \in SUBSET EpisodeStoreKeys
    /\ denied = {}
    /\ outage # "none" => exists = {}
    /\ API_DOMAIN \in ApiDomains
    /\ IS_LAMBDA = TRUE /\ ProxyIdle
    /\ stored \in EpisodeObjects
    /\ metadata = << >>
    /\ idx = 0 /\ akeys = << >> /\ probes = NoProbes /\ signs = {}
    /\ resp = NoResp
    /\ raw = << >> /\ audio_key = NoKey /\ s3_keys_to_try = << >>
    /\ episode_data = << >> /\ i = 0 /\ playlist = << >>

\* lines 96-98: the episode object is read
LoadEpisode ==
    /\ pc = "get_episode"
    /\ metadata' = stored
    /\ pc' = "articles"
    /\ UNCHANGED <<stored, idx, akeys, probes, signs, resp,
                   keyVars, assemblyVars, storeVars, proxyVars>>

\* lines 96-97, 175-177: get_object raises ClientError
EpisodeNotFound ==
    /\ pc = "get_episode"
    /\ resp' = Response(404, [error |-> "Episode e1 not found"])
    /\ pc' = "done"
    /\ UNCHANGED <<stored, metadata, idx, akeys, probes, signs,
                   keyVars, assemblyVars, storeVars, proxyVars>>

\* lines 206-209: any other exception
InternalError == Response(500, [error |-> "Internal server error"])

EpisodeError ==
    /\ pc = "get_episode"
    /\ resp' = InternalError
    /\ pc' = "done"
    /\ UNCHANGED <<stored, metadata, idx, akeys, probes, signs,
                   keyVars, assemblyVars, storeVars, proxyVars>>

\* lines 106-141: one article
ConvertArticle ==
    /\ pc = "articles"
    /\ idx < Len(metadata.articles)
    /\ \E r \in ConvertArticleFields(metadata.articles[idx + 1]) :
          /\ signs' = r.signed
          /\ IF r.raised
             THEN /\ resp' = InternalError
                  /\ pc' = "done"
                  /\ UNCHANGED <<metadata, idx>>
             ELSE /\ metadata' = [metadata EXCEPT !.articles[idx + 1] = r.article]
                  /\ idx' = idx + 1
                  /\ UNCHANGED <<pc, resp>>
    /\ UNCHANGED <<stored, akeys, probes, keyVars, assemblyVars, storeVars, proxyVars>>

\* lines 143-156
ConvertIntro ==
    /\ pc = "articles"
    /\ idx = Len(metadata.articles)
    /\ \E r \in ConvertField(metadata.intro_audio_url) :
          /\ signs' = r.signed
          /\ IF r.raised
             THEN /\ resp' = InternalError
                  /\ pc' = "done"
                  /\ UNCHANGED metadata
             ELSE /\ metadata' = [metadata EXCEPT !.intro_audio_url = r.val]
                  /\ pc' = "outro"
                  /\ UNCHANGED resp
    /\ UNCHANGED <<stored, idx, akeys, probes, keyVars, assemblyVars, storeVars, proxyVars>>

\* lines 158-171, 204
ConvertOutroAndReturn ==
    /\ pc = "outro"
    /\ \E r \in ConvertField(metadata.outro_audio_url) :
          /\ signs' = r.signed
          /\ IF r.raised
             THEN /\ resp' = InternalError
                  /\ UNCHANGED metadata
             ELSE /\ metadata' = [metadata EXCEPT !.outro_audio_url = r.val]
                  /\ resp' = Response(200, metadata')
    /\ pc' = "done"
    /\ UNCHANGED <<stored, idx, akeys, probes, keyVars, assemblyVars, storeVars, proxyVars>>

NextEpisode ==
    \/ LoadEpisode
    \/ EpisodeNotFound
    \/ EpisodeError
    \/ ConvertArticle
    \/ ConvertIntro
    \/ ConvertOutroAndReturn

SpecEpisode == InitEpisode /\ [][NextEpisode]_vars

----------------------------------------------------------------------------
(* Claims about get_episode (specification SpecEpisode) *)

EpisodeReturned == pc = "done" /\ resp.statusCode = 200

\* the references of the episode named by C10, as stored and as returned
EpisodeRefsOf(ep) ==
    <<ep.intro_audio_url, ep.outro_audio_url>>
        \o [k \in 1..Len(ep.articles) |-> ep.articles[k].audio_url]

\* a reference that is a str, is there, is not empty and is not signed
Unsigned(v) == v # Absent /\ NonEmptyStr(v) /\ ~LooksSigned(v)

\* an https URL of the bucket
IsHttpsBucketUrl(v) == StartsWith(v, HTTPS) /\ Contains(v, BucketBase)

\* C10 (as claimed): every non-empty, not already signed reference of an
\* episode (intro, outro, each article's audio), whatever its raw form, comes
\* back as the result of the pipeline and never as the raw reference.
C10_EveryFormConverted ==
    EpisodeReturned =>
        LET before == EpisodeRefsOf(stored)
            after == EpisodeRefsOf(resp.body)
        IN  \A k \in 1..Len(before) : Unsigned(before[k]) => after[k] # before[k]

\* C10 (amended): get_episode converts a non-empty, not already signed
\* reference (intro, outro, each article's audio) only when it is an https URL
\* of the bucket: the response then carries what build_audio_url returns for
\* the key after the bucket base, the signed URL of a candidate that exists or
\* else the API path of the key.  A reference of any other raw form
\* (/audio/-prefixed path, bare filename, http URL, URL outside the bucket)
\* comes back unchanged.
C10_OnlyBucketUrlsConverted ==
    EpisodeReturned =>
        LET before == EpisodeRefsOf(stored)
            after == EpisodeRefsOf(resp.body)
            base == IF API_DOMAIN = << >> THEN << >>
                    ELSE HTTPS \o <<"api.example.com", Slash>>
        IN  \A k \in 1..Len(before) :
                Unsigned(before[k]) =>
                    IF IsHttpsBucketUrl(before[k])
                    THEN LET key == Drop(before[k], Len(HTTPS \o BucketBase))
                             found == {c \in Range(CandidateList(CleanKey(key))) :
                                          HeadObject(c) = "ok"}
                         IN  IF found = {}
                             THEN after[k] = base \o AudioSlash \o UnderAudio(key)
                             ELSE \E c \in found : after[k] = PresignedUrl(c)
                    ELSE after[k] = before[k]

C10_Witness ==
    /\ EpisodeReturned
    /\ exists = {ExampleKey}
    /\ Len(stored.articles) = 1
    /\ stored.articles[1].audio_url = BucketRef
    /\ resp.body.articles[1].audio_url = PresignedUrl(ExampleKey)
    /\ stored.intro_audio_url = AudioPathRef
    /\ resp.body.intro_audio_url = AudioPathRef
    /\ stored.outro_audio_url = BareRef
    /\ resp.body.outro_audio_url = BareRef

\* what build_audio_url answers for the key of an https URL of the bucket
IsConversionOf(after, before) ==
    LET key == Drop(before, Len(HTTPS \o BucketBase))
        found == {c \in Range(CandidateList(CleanKey(key))) : HeadObject(c) = "ok"}
        base == IF API_DOMAIN = << >> THEN << >>
                ELSE HTTPS \o <<"api.example.com", Slash>>
    IN  IF found = {}
        THEN after = base \o AudioSlash \o UnderAudio(key)
        ELSE \E c \in found : after = PresignedUrl(c)

\* C24: in get_episode the conversion of an article's english_audio_url does
\* not depend on the same article's audio_url: every article whose
\* english_audio_url is an unsigned https URL of the bucket comes back with it
\* converted, also when the article's audio_url is already a signed URL.
C24_EnglishConvertedIndependently ==
    EpisodeReturned =>
        \A k \in 1..Len(stored.articles) :
            LET en == stored.articles[k].english_audio_url
            IN  (Unsigned(en) /\ IsHttpsBucketUrl(en)) =>
                    IsConversionOf(resp.body.articles[k].english_audio_url, en)

\* the case of C24 on which the code agrees with the claim: audio_url is not
\* signed, and both references of the article are converted
C24_BothConverted ==
    /\ EpisodeReturned
    /\ exists = {ExampleKey}
    /\ Len(stored.articles) = 1
    /\ stored.articles[1] = EpisodeArticle(BucketRef, BucketRef)
    /\ resp.body.articles[1].audio_url = PresignedUrl(ExampleKey)
    /\ resp.body.articles[1].english_audio_url = PresignedUrl(ExampleKey)

----------------------------------------------------------------------------
(* Requests one after the other against the same store *)

\* the handler has answered; the next request for the same object starts with
\* fresh locals
NextRequest ==
    /\ pc = "done"
    /\ pc' = IF "articles" \in DOMAIN stored THEN "get_episode" ELSE "get_playlist"
    /\ metadata' = << >>
    /\ idx' = 0
    /\ akeys' = << >>
    /\ probes' = NoProbes
    /\ signs' = {}
    /\ resp' = NoResp
    /\ UNCHANGED <<stored, keyVars, assemblyVars, storeVars, proxyVars>>

InitRequests == InitPlaylist \/ InitEpisode

NextRequests ==
    \/ NextPlaylist
    \/ NextEpisode
    \/ NextRequest

SpecRequests == InitRequests /\ [][NextRequests]_vars

----------------------------------------------------------------------------
(* api_handler.get_playlist applied to a playlist it returned *)

\* metadata with a playlist of one item
InitReconvert ==
    /\ InitPlaylist
    /\ "playlist" \in DOMAIN stored
    /\ Len(stored.playlist) = 1

\* the URL that the request produced for the item comes in again as the
\* item's reference, in metadata otherwise the same and against the same
\* store; raw keeps the URL
Resubmit ==
    /\ pc = "done"
    /\ resp.statusCode = 200
    /\ raw = << >>
    /\ akeys # << >> /\ akeys[1] # NoKey
    /\ raw' = resp.body.playlist[1].audio_url
    /\ stored' = [stored EXCEPT !.playlist[1].audio_url = raw']
    /\ pc' = "get_playlist"
    /\ metadata' = << >>
    /\ idx' = 0
    /\ akeys' = << >>
    /\ probes' = NoProbes
    /\ signs' = {}
    /\ resp' = NoResp
    /\ UNCHANGED <<audio_key, s3_keys_to_try, assemblyVars, storeVars, proxyVars>>

NextReconvert ==
    \/ NextPlaylist
    \/ Resubmit

SpecReconvert == InitReconvert /\ [][NextReconvert]_vars

\* the request for the resubmitted URL went through the conversion
Reconverted == raw # << >> /\ pc = "done" /\ metadata # << >>

\* C25: the conversion of get_playlist returns every URL it produced as it
\* is: a signed URL, an API-domain fallback URL and a relative audio/ fallback
\* path, handed in again against the same store, each come back unchanged.
C25_ConversionIsIdempotent ==
    Reconverted =>
        /\ resp.statusCode = 200
        /\ resp.body.playlist[1].audio_url = raw

\* the cases of C25 on which the code agrees with the claim: a signed URL
\* that the conversion produced comes back as it is
C25_SignedUrlComesBack ==
    /\ Reconverted
    /\ raw = PresignedUrl(ExampleKey)
    /\ resp.statusCode = 200
    /\ resp.body.playlist[1].audio_url = raw

\* ... and so does the relative fallback path of a key under audio/
C25_RelativePathComesBack ==
    /\ Reconverted
    /\ API_DOMAIN = << >>
    /\ raw = AudioSlash \o <<"ep1.mp3">>
    /\ probes.n >= 1
    /\ resp.statusCode = 200
    /\ resp.body.playlist[1].audio_url = raw

----------------------------------------------------------------------------
(* Development mode (IS_LAMBDA false): config.build_audio_url and the local
   branch of api_handler.get_playlist *)

\* f"http://{LOCAL_HOST}:{LOCAL_PORT}/audio/"
LocalBase == HTTP \o <<"127.0.0.1:5001", Slash, "audio", Slash>>

\* build_audio_url that always keeps the basename of the key only
LocalBuildAudioUrl_BasenameOnly(key) ==
    IF Falsy(key) THEN None
    ELSE IF IsHttpUrl(key) THEN key
    ELSE LocalBase \o SplitLast(key)

\* config.build_audio_url, lines 118-125 and 181-193, for a str or None
LocalBuildAudioUrl(key) ==
    IF Falsy(key) THEN None
    ELSE IF IsHttpUrl(key) THEN key
    ELSE LET filename == IF StartsWith(key, SlashAudioSlash) THEN Drop(key, 3)
                         ELSE IF StartsWith(key, AudioSlash) THEN Drop(key, 2)
                         ELSE SplitLast(key)
         IN  LocalBase \o filename

\* api_handler.get_playlist, lines 413-436: the audio_url an item gets in
\* development mode ('http' is a prefix of the first token after /audio/)
LocalPlaylistUrl(url) ==
    IF StartsWith(url, SlashAudioSlash)
    THEN LET after_prefix == Drop(url, 3)
         IN  IF after_prefix # << >> /\ after_prefix[1] \in HttpTokens
             THEN LocalBase \o SplitLast(after_prefix)
             ELSE LocalBase \o after_prefix
    ELSE IF StartsWith(url, HTTPS) \/ StartsWith(url, HTTP)
    THEN LocalBase \o SplitLast(url)
    ELSE LocalBase \o url

LocalTokens == {Slash, "data", "ep1.mp3"}
LocalPrefixes ==
    { << >>, SlashAudioSlash, AudioSlash, HTTPS \o <<"evil", Slash>>,
      SlashAudioSlash \o HTTP \o <<"evil", Slash>> }
LocalInputs ==
    {p \o k : p \in LocalPrefixes, k \in SeqsUpTo(LocalTokens, MaxKeyLen)} \cup {None}

InitLocal ==
    /\ pc = "local"
    /\ raw \in LocalInputs
    /\ stored = [episode_id |-> "e1", playlist |-> <<Item(raw)>>]
    /\ audio_key = NoKey /\ s3_keys_to_try = << >>
    /\ episode_data = << >> /\ i = 0 /\ playlist = << >>
    /\ exists = {} /\ denied = {} /\ outage = "none" /\ API_DOMAIN = << >>
    /\ IS_LAMBDA = FALSE /\ ProxyIdle
    /\ metadata = << >> /\ idx = 0 /\ akeys = << >> /\ probes = NoProbes /\ signs = {}
    /\ resp = NoResp

\* build_audio_url(raw) in development mode: resp is the value returned
BuildLocalUrl ==
    /\ pc = "local"
    /\ audio_key' = raw
    /\ resp' = LocalBuildAudioUrl(raw)
    /\ pc' = "build_audio_url"
    /\ UNCHANGED <<raw, s3_keys_to_try, stored, metadata, idx, akeys, probes, signs,
                   assemblyVars, storeVars, proxyVars>>

\* get_playlist, lines 406-436 and 446-448, on a metadata file whose playlist
\* holds the one item
GetPlaylistLocal ==
    /\ pc = "local"
    /\ metadata' = [stored EXCEPT !.playlist[1].audio_url =
                        IF Falsy(raw) THEN raw ELSE LocalPlaylistUrl(raw)]
    /\ resp' = Response(200, [playlist |-> metadata'.playlist])
    /\ pc' = "get_playlist"
    /\ UNCHANGED <<keyVars, stored, idx, akeys, probes, signs, assemblyVars, storeVars, proxyVars>>

\* get_playlist, lines 408 and 447, 453-456: without the metadata file metadata
\* stays None and "'playlist' in metadata" raises TypeError
GetPlaylistLocalNoFile ==
    /\ pc = "local"
    /\ resp' = InternalError
    /\ pc' = "get_playlist"
    /\ UNCHANGED <<keyVars, stored, metadata, idx, akeys, probes, signs,
                   assemblyVars, storeVars, proxyVars>>

NextLocal ==
    \/ BuildLocalUrl
    \/ GetPlaylistLocal
    \/ GetPlaylistLocalNoFile

SpecLocal == InitLocal /\ [][NextLocal]_vars

----------------------------------------------------------------------------
(* Claims about development mode (specification SpecLocal) *)

\* build_audio_url returned for a key: a str that is not empty and no URL
BuiltForKey == pc = "build_audio_url" /\ ~Falsy(raw) /\ ~IsHttpUrl(raw)

\* get_playlist answered with the item converted
ListedForRef == pc = "get_playlist" /\ resp.statusCode = 200 /\ ~Falsy(raw)

\* s has no "/"
NoSlash(s) == \A k \in 1..Len(s) : s[k] # Slash

\* b is the final path component of s
IsBasenameOf(b, s) ==
    /\ NoSlash(b)
    /\ Len(b) <= Len(s)
    /\ SubSeq(s, Len(s) - Len(b) + 1, Len(s)) = b
    /\ Len(b) < Len(s) => s[Len(s) - Len(b)] = Slash

\* C12 (as claimed): in development mode the URL built for a key is
\* http://127.0.0.1:5001/audio/<basename of the key>; no directory of the key
\* shows after /audio/.
C12_LocalUrlIsBasename ==
    /\ BuiltForKey =>
          /\ StartsWith(resp, LocalBase)
          /\ IsBasenameOf(Drop(resp, Len(LocalBase)), raw)
    /\ ListedForRef =>
          LET url == resp.body.playlist[1].audio_url
          IN  /\ StartsWith(url, LocalBase)
              /\ IsBasenameOf(Drop(url, Len(LocalBase)), raw)

\* C12 (amended): in development mode build_audio_url returns
\* http://127.0.0.1:5001/audio/<rest>: for a key that starts with /audio/ or
\* audio/, <rest> is all that follows that prefix, directories included; for
\* any other key it is the basename.  The development branch of get_playlist
\* puts after http://127.0.0.1:5001/audio/ what follows a leading /audio/ of
\* the reference (the final path component when that starts with 'http'), the
\* final path component of an http(s) URL, and any other reference whole.
C12_LocalUrlKeepsPathUnderAudio ==
    /\ BuiltForKey =>
          /\ StartsWith(resp, LocalBase)
          /\ LET rest == Drop(resp, Len(LocalBase))
             IN  IF StartsWith(raw, SlashAudioSlash) THEN SlashAudioSlash \o rest = raw
                 ELSE IF StartsWith(raw, AudioSlash) THEN AudioSlash \o rest = raw
                 ELSE IsBasenameOf(rest, raw)
    /\ ListedForRef =>
          LET url == resp.body.playlist[1].audio_url
              rest == Drop(url, Len(LocalBase))
          IN  /\ StartsWith(url, LocalBase)
              /\ IF StartsWith(raw, SlashAudioSlash)
                 THEN IF Len(raw) > 3 /\ raw[4] \in {"http:", "https:"}
                      THEN IsBasenameOf(rest, raw)
                      ELSE SlashAudioSlash \o rest = raw
                 ELSE IF raw[1] \in {"http:", "https:"} /\ Len(raw) >= 3
                         /\ raw[2] = Slash /\ raw[3] = Slash
                 THEN IsBasenameOf(rest, raw)
                 ELSE rest = raw

C12_Witness ==
    /\ pc = "build_audio_url"
    /\ raw = <<"audio", Slash, "data", Slash, "ep1.mp3">>
    /\ resp = LocalBase \o <<"data", Slash, "ep1.mp3">>

----------------------------------------------------------------------------
(* audio_proxy.lambda_handler *)

\* fragments that hold percent escapes, and what urllib.parse.unquote makes of
\* each ("%2F" is "/", "%20" a blank, "%25" the percent sign itself)
PercentTokens == {"%2e%2e", "%2e%2e%2Fsecret", "%252e%252e", "ep%201.mp3"}

UnquoteToken(tok) ==
    CASE tok = "%2e%2e" -> <<"..">>
      [] tok = "%2e%2e%2Fsecret" -> <<"..", Slash, "secret">>
      [] tok = "%252e%252e" -> <<"%2e%2e">>
      [] tok = "ep%201.mp3" -> <<"ep 1.mp3">>
      [] OTHER -> <<tok>>

\* urllib.parse.unquote(s)
RECURSIVE Unquote(_)
Unquote(s) == IF s = << >> THEN << >> ELSE UnquoteToken(Head(s)) \o Unquote(Tail(s))

\* '%' in s
HasPercent(s) == \E k \in 1..Len(s) : s[k] \in PercentTokens

\* '..' in s
HasDotDot(s) == \E k \in 1..Len(s) : s[k] = ".."

\* lines 122-125
StripAudioPrefix(s) ==
    IF StartsWith(s, SlashAudioSlash) THEN Drop(s, Len(SlashAudioSlash))
    ELSE IF StartsWith(s, AudioSlash) THEN Drop(s, Len(AudioSlash))
    ELSE s

\* lines 128-134
DecodePath(s) == IF HasPercent(s) THEN Unquote(s) ELSE s

\* lines 137-138
FilenameOfUrl(s) == IF Contains(s, HTTPS) \/ Contains(s, HTTP) THEN SplitLast(s) ELSE s

\* lines 122-138: the cleaning of a path that passed the test of line 113
CleanPath(s) == FilenameOfUrl(DecodePath(StripAudioPrefix(s)))

\* s3_client.get_object(Bucket=S3_BUCKET, Key=key): the store answers a read
\* as it answers a probe, with error code NoSuchKey for a key that is not there
GetObject(key) == HeadObject(key)

\* the objects and the local files whose content is empty
EmptyName == "empty.mp3"
HasContent(path) == path[Len(path)] # EmptyName

\* s without its k-th element
Without(s, k) == SubSeq(s, 1, k - 1) \o SubSeq(s, k + 1, Len(s))

\* one copy of each element of s, in the order of first occurrence
RECURSIVE Dedup(_)
Dedup(s) ==
    IF s = << >> THEN << >>
    ELSE LET d == Dedup(SubSeq(s, 1, Len(s) - 1))
         IN  IF s[Len(s)] \in Range(d) THEN d ELSE Append(d, s[Len(s)])

\* line 165: list(set(s3_keys_to_try)).  The order is the iteration order of a
\* set of str.  What the loop does depends on which key, if any, answers first
\* and on which key is tried last, so the orders of the model are: any one key
\* first, or any one key last, the other keys as listed
ProxyOrders(keys) ==
    LET c == Dedup(keys)
    IN  {<<c[k]>> \o Without(c, k) : k \in 1..Len(c)}
            \cup {Append(Without(c, k), c[k]) : k \in 1..Len(c)}

\* lines 167-192: the loop over the keys from position n + 1 on, last_error the
\* error code of the ClientError caught last (None when none was caught).
\* found: get_object answered for key; raised: an exception that is no
\* ClientError left the loop; tried: number of get_object calls
RECURSIVE FetchFrom(_, _, _)
FetchFrom(order, n, last_error) ==
    IF n = Len(order)
    THEN [found |-> FALSE, raised |-> FALSE, tried |-> n, key |-> NoKey,
          last_error |-> last_error]
    ELSE LET r == GetObject(order[n + 1])
         IN  IF r = "ok"
             THEN [found |-> TRUE, raised |-> FALSE, tried |-> n + 1,
                   key |-> order[n + 1], last_error |-> last_error]
             ELSE IF r = "Exception"
             THEN [found |-> FALSE, raised |-> TRUE, tried |-> n + 1, key |-> NoKey,
                   last_error |-> last_error]
             ELSE FetchFrom(order, n + 1, S(r))

\* the error responses of lambda_handler
ProxyError(status, message) ==
    [statusCode |-> status, headers |-> CORS_HEADERS, body |-> [error |-> message]]

\* lines 251-264: the response that carries the file
ProxyFile(path) ==
    [statusCode |-> 200,
     headers |-> [ h \in DOMAIN CORS_HEADERS \cup {"Content-Type", "Cache-Control"} |->
                     CASE h = "Content-Type" -> "audio/mpeg"
                       [] h = "Cache-Control" -> "public, max-age=86400"
                       [] OTHER -> CORS_HEADERS[h] ],
     body |-> [content_of |-> path],
     isBase64Encoded |-> TRUE]

\* lines 194-202, 243-264, 266-273: the response after the loop over the keys
S3Response(r, path) ==
    IF r.raised THEN ProxyError(500, S("Server error"))
    ELSE IF ~r.found
    THEN ProxyError(IF r.last_error = S("NoSuchKey") THEN 404 ELSE 500,
                    S("File not found: ") \o path)
    ELSE IF ~HasContent(r.key) THEN ProxyError(404, S("File content is empty"))
    ELSE ProxyFile(r.key)

\* config.LOCAL_AUDIO_DIR and its parent directory
ProjectDir == <<Slash, "app">>
LOCAL_AUDIO_DIR == PathJoin(ProjectDir, S("local_audio"))

\* lines 206-216
LocalPaths(path) ==
    << PathJoin(LOCAL_AUDIO_DIR, path),
       PathJoin(LOCAL_AUDIO_DIR, SplitLast(path)),
       PathJoin(PathJoin(ProjectDir, S("local_audio")), path),
       PathJoin(ProjectDir, path),
       PathJoin(PathJoin(LOCAL_AUDIO_DIR, S("narration")), path),
       PathJoin(PathJoin(LOCAL_AUDIO_DIR, S("narration")), SplitLast(path)) >>

\* lines 218-231: the first of the paths that is a file, 0 when none is
FirstFile(paths) ==
    LET at == {k \in 1..Len(paths) : paths[k] \in exists}
    IN  IF at = {} THEN 0 ELSE CHOOSE k \in at : \A m \in at : k <= m

\* the file_path values of the requests of the model
ProxyPaths ==
    { << >>,
      <<"ep1.mp3">>,
      SlashAudioSlash \o <<"ep1.mp3">>,
      AudioSlash \o <<"ep1.mp3">>,
      <<"narration", Slash, "ep1.mp3">>,
      <<EmptyName>>,
      <<"ep%201.mp3">>,
      HTTPS \o <<"evil", Slash, "ep1.mp3">>,
      <<"..", Slash, "secret">>,
      AudioSlash \o <<"..", Slash, "secret">>,
      <<"%2e%2e", Slash, "secret">>,
      <<"%2e%2e%2Fsecret">>,
      <<"%252e%252e", Slash, "secret">> }

\* the events audio_proxy.lambda_handler is invoked with: with a file_path
\* path parameter, or without path parameters
ProxyEvents ==
    {[httpMethod |-> "GET", pathParameters |-> [file_path |-> f]] : f \in ProxyPaths}
        \cup {[httpMethod |-> "GET"]}

\* the objects of the bucket, and the files of the development machine
ProxyObjects ==
    { <<"audio", Slash, "ep1.mp3">>, ExampleKey, <<"audio", Slash, EmptyName>> }
ProxyFiles ==
    { PathJoin(LOCAL_AUDIO_DIR, <<"ep1.mp3">>),
      PathJoin(LOCAL_AUDIO_DIR, <<EmptyName>>),
      PathJoin(LOCAL_AUDIO_DIR, <<"..", Slash, "secret">>) }

\* the store in Lambda, the file system in development
InitProxyStore ==
    /\ IS_LAMBDA \in BOOLEAN
    /\ API_DOMAIN = << >>
    /\ IF IS_LAMBDA
       THEN /\ outage \in {"none", "client", "conn", "flaky"}
            /\ exists \in SUBSET ProxyObjects
            /\ denied \in SUBSET (DeniableKeys \ exists)
            /\ outage \in {"client", "conn"} => exists = {} /\ denied = {}
            /\ outage = "flaky" => denied # {}
       ELSE /\ outage = "none"
            /\ exists \in SUBSET ProxyFiles
            /\ denied = {}

InitProxy ==
    /\ pc = "proxy"
    /\ InitProxyStore
    /\ event \in ProxyEvents
    /\ file_path = << >> /\ paths_to_try = << >>
    /\ stored = << >> /\ metadata = << >>
    /\ idx = 0 /\ akeys = << >> /\ probes = NoProbes /\ signs = {}
    /\ resp = NoResp
    /\ raw = << >> /\ audio_key = NoKey /\ s3_keys_to_try = << >>
    /\ episode_data = << >> /\ i = 0 /\ playlist = << >>

\* lines 99-106
ProxyMissingParameter ==
    /\ pc = "proxy"
    /\ "pathParameters" \notin DOMAIN event
    /\ resp' = ProxyError(400, S("Missing file path parameter"))
    /\ pc' = "done"
    /\ UNCHANGED <<stored, metadata, idx, akeys, probes, signs,
                   keyVars, assemblyVars, storeVars, proxyVars>>

\* lines 100, 113-118
ProxyInvalidPath ==
    /\ pc = "proxy"
    /\ "pathParameters" \in DOMAIN event
    /\ event.pathParameters.file_path = << >> \/ HasDotDot(event.pathParameters.file_path)
    /\ resp' = ProxyError(400, S("Invalid file path"))
    /\ pc' = "done"
    /\ UNCHANGED <<stored, metadata, idx, akeys, probes, signs,
                   keyVars, assemblyVars, storeVars, proxyVars>>

\* lines 100, 113, 122-138
ProxyCleanPath ==
    /\ pc = "proxy"
    /\ "pathParameters" \in DOMAIN event
    /\ event.pathParameters.file_path # << >>
    /\ ~HasDotDot(event.pathParameters.file_path)
    /\ file_path' = CleanPath(event.pathParameters.file_path)
    /\ pc' = "fetch"
    /\ UNCHANGED <<stored, metadata, idx, akeys, probes, signs, resp, event,
                   paths_to_try, keyVars, assemblyVars, storeVars>>

\* lines 147-202, 243-273: idx counts the get_object calls
ProxyFetchS3 ==
    /\ pc = "fetch"
    /\ IS_LAMBDA
    /\ \E order \in ProxyOrders(CandidateList(file_path)) :
          LET r == FetchFrom(order, 0, None)
          IN  /\ paths_to_try' = order
              /\ idx' = r.tried
              /\ resp' = S3Response(r, file_path)
    /\ pc' = "done"
    /\ UNCHANGED <<stored, metadata, akeys, probes, signs, event, file_path,
                   keyVars, assemblyVars, storeVars>>

\* lines 203-264: idx counts the paths looked at
ProxyFetchLocal ==
    /\ pc = "fetch"
    /\ ~IS_LAMBDA
    /\ paths_to_try' = LocalPaths(file_path)
    /\ LET k == FirstFile(paths_to_try')
       IN  /\ idx' = IF k = 0 THEN Len(paths_to_try') ELSE k
           /\ resp' = IF k = 0
                      THEN ProxyError(404, S("File not found: ") \o file_path)
                      ELSE IF ~HasContent(paths_to_try'[k])
                      THEN ProxyError(404, S("File content is empty"))
                      ELSE ProxyFile(paths_to_try'[k])
    /\ pc' = "done"
    /\ UNCHANGED <<stored, metadata, akeys, probes, signs, event, file_path,
                   keyVars, assemblyVars, storeVars>>

NextProxy ==
    \/ ProxyMissingParameter
    \/ ProxyInvalidPath
    \/ ProxyCleanPath
    \/ ProxyFetchS3
    \/ ProxyFetchLocal

SpecProxy == InitProxy /\ [][NextProxy]_vars

----------------------------------------------------------------------------
(* Claims about audio_proxy.lambda_handler (specification SpecProxy) *)

\* the store keys read and the local paths looked at so far
Accessed == {paths_to_try[k] : k \in 1..idx}

\* C23: the audio proxy reads no store key and looks at no local path that
\* contains '..': a file_path that contains '..' once it is cleaned and
\* URL-decoded is answered with status 400 without any access to the store or
\* to the file system.
C23_NoDotDotAccess ==
    /\ \A p \in Accessed : ~HasDotDot(p)
    /\ (pc \in {"fetch", "done"} /\ HasDotDot(file_path)) =>
          /\ pc = "done"
          /\ resp.statusCode = 400
          /\ idx = 0

\* the case of C23 on which the code agrees with the claim: '..' written out
\* is refused before anything is read
C23_PlainDotDotRefused ==
    /\ pc = "done"
    /\ "pathParameters" \in DOMAIN event
    /\ event.pathParameters.file_path = <<"..", Slash, "secret">>
    /\ resp = ProxyError(400, S("Invalid file path"))
    /\ Accessed = {}
    /\ file_path = << >>

\* C27: when the Lambda proxy finds the file under none of its candidate
\* keys, the status of its answer is the same for every order in which the
\* keys can be tried.
C27_StatusIndependentOfOrder ==
    (/\ pc = "done" /\ IS_LAMBDA /\ paths_to_try # << >>
     /\ \A c \in CandidateSet(file_path) : GetObject(c) # "ok") =>
        \A order \in ProxyOrders(CandidateList(file_path)) :
            S3Response(FetchFrom(order, 0, None), file_path).statusCode = resp.statusCode

\* the case of C27 on which the code agrees with the claim: every candidate
\* is answered with NoSuchKey, and the status is 404 whatever the order
C27_AllMissingIs404 ==
    /\ pc = "done" /\ IS_LAMBDA
    /\ "pathParameters" \in DOMAIN event
    /\ event.pathParameters.file_path = <<"ep1.mp3">>
    /\ exists = {} /\ denied = {} /\ outage = "none"
    /\ idx = Cardinality(CandidateSet(file_path))
    /\ resp.statusCode = 404

----------------------------------------------------------------------------
(* api_handler.handle_request *)

\* an event that is no dict
NotADict == [malformed |-> TRUE]

EpisodesPath == <<Slash, "episodes">>
EpisodePath == <<Slash, "episodes", Slash, "e1">>
PlaylistPath == <<Slash, "episodes", Slash, "e1", Slash, "playlist">>
ArticleAudioPath == <<Slash, "api", Slash, "articles", Slash, "id1", Slash, "audio">>
HealthPath == <<Slash, "health">>

\* the paths of the requests of the model, by the data the request needs
PlaylistPaths == { PlaylistPath, PlaylistPath \o <<Slash>> }
EpisodePaths == { EpisodePath, <<Slash, "api">> \o EpisodePath }
OtherPaths ==
    { EpisodesPath, ArticleAudioPath, HealthPath, <<Slash, "nope">>, << >>,
      SlashAudioSlash,
      SlashAudioSlash \o <<"ep1.mp3">>,
      SlashAudioSlash \o <<EmptyName>>,
      SlashAudioSlash \o <<"..", Slash, "secret">>,
      SlashAudioSlash \o <<"%2e%2e", Slash, "secret">> }

Methods == {"GET", "OPTIONS", "POST"}

EventsFor(paths) == {[httpMethod |-> m, path |-> p] : m \in Methods, p \in paths}

\* s.endswith(p)
EndsWith(s, p) == Len(s) >= Len(p) /\ SubSeq(s, Len(s) - Len(p) + 1, Len(s)) = p

\* what handle_request does with the event: the response it returns at once
\* (next = "done"), or the handler it calls, for the proxy with the event it
\* hands over
Routed(next, response, ev) == [pc |-> next, resp |-> response, event |-> ev]

\* Routing that looks at the method only after the path
Routing_MethodUnchecked(ev) ==
    IF "path" \notin DOMAIN ev
    THEN Routed("done", Response(500, [error |-> "Internal server error"]), ev)
    ELSE IF RStripSlash(ev.path) = HealthPath
    THEN Routed("done", Response(200, [status |-> "OK", service |-> "news-audio-api"]), ev)
    ELSE IF RStripSlash(ev.path) = EpisodesPath THEN Routed("get_episodes", NoResp, ev)
    ELSE IF SplitLast(RStripSlash(ev.path)) = <<"playlist">>
    THEN Routed("get_playlist", NoResp, ev)
    ELSE Routed("done", Response(404, [error |-> "Not found"]), ev)

\* lines 478-538
Routing(ev) ==
    IF "path" \notin DOMAIN ev
    THEN \* line 479 raises AttributeError, caught at 535-538
         Routed("done", Response(500, [error |-> "Internal server error"]), ev)
    ELSE LET path == RStripSlash(ev.path)
             http_method == ev.httpMethod
         IN  IF http_method = "OPTIONS" THEN Routed("done", Response(200, << >>), ev)
             ELSE IF http_method # "GET"
             THEN Routed("done", Response(405, [error |-> "Method not allowed"]), ev)
             ELSE IF StartsWith(path, SlashAudioSlash)
             THEN Routed("proxy", NoResp,
                         [httpMethod |-> ev.httpMethod, path |-> ev.path,
                          pathParameters |->
                              [file_path |-> Drop(path, Len(SlashAudioSlash))]])
             ELSE IF path = EpisodesPath \/ path = <<Slash, "api">> \o EpisodesPath
             THEN Routed("get_episodes", NoResp, ev)
             ELSE IF \/ StartsWith(path, EpisodesPath \o <<Slash>>)
                     \/ StartsWith(path, <<Slash, "api">> \o EpisodesPath \o <<Slash>>)
             THEN IF SplitLast(path) = <<"playlist">>
                  THEN Routed("get_playlist", NoResp, ev)
                  ELSE Routed("get_episode", NoResp, ev)
             ELSE IF /\ StartsWith(path, <<Slash, "api", Slash, "articles", Slash>>)
                     /\ EndsWith(path, <<Slash, "audio">>)
             THEN Routed("get_article_audio", NoResp, ev)
             ELSE IF path = HealthPath
             THEN Routed("done", Response(200, [status |-> "OK", service |-> "news-audio-api"]), ev)
             ELSE Routed("done", Response(404, [error |-> "Not found"]), ev)

\* the request arrives: the playlist and episode requests find the objects and
\* the store of the playlist and episode models, with one item or at most one
\* article; the other requests find the store or the files of the proxy
InitHandler ==
    /\ pc = "handle_request"
    /\ \/ /\ event \in EventsFor(PlaylistPaths)
          /\ InitStore
          /\ stored \in {m \in Metadatas : "playlist" \in DOMAIN m => Len(m.playlist) = 1}
       \/ /\ event \in EventsFor(EpisodePaths)
          /\ outage \in {"none", "client", "conn"}
          /\ exists \in SUBSET EpisodeStoreKeys
          /\ denied = {}
          /\ outage # "none" => exists = {}
          /\ API_DOMAIN \in ApiDomains
          /\ IS_LAMBDA = TRUE
          /\ stored \in {e \in EpisodeObjects : Len(e.articles) <= 1}
       \/ /\ event \in EventsFor(OtherPaths) \cup {NotADict}
          /\ InitProxyStore
          /\ stored = << >>
    /\ file_path = << >> /\ paths_to_try = << >>
    /\ metadata = << >>
    /\ idx = 0 /\ akeys = << >> /\ probes = NoProbes /\ signs = {}
    /\ resp = NoResp
    /\ raw = << >> /\ audio_key = NoKey /\ s3_keys_to_try = << >>
    /\ episode_data = << >> /\ i = 0 /\ playlist = << >>

\* lines 478-538, up to the call of the handler of the route
HandleRequest ==
    /\ pc = "handle_request"
    /\ LET r == Routing(event)
       IN  /\ pc' = r.pc
           /\ resp' = r.resp
           /\ event' = r.event
    /\ UNCHANGED <<stored, metadata, idx, akeys, probes, signs, file_path,
                   paths_to_try, keyVars, assemblyVars, storeVars>>

\* get_episodes, lines 39-78: the list is returned (200; in development also
\* when the file is missing), get_object raises a ClientError (404), or
\* anything else is raised and caught (500)
GetEpisodes ==
    /\ pc = "get_episodes"
    /\ \E r \in {Response(200, [episodes |-> << >>]),
                 Response(500, [error |-> "Internal server error"])}
                \cup (IF IS_LAMBDA
                      THEN {Response(404, [error |-> "Episodes list not found"])}
                      ELSE {}) :
          resp' = r
    /\ pc' = "done"
    /\ UNCHANGED <<stored, metadata, idx, akeys, probes, signs,
                   keyVars, assemblyVars, storeVars, proxyVars>>

\* get_article_audio, lines 212-317: in development the URL of the article's
\* file (200); in Lambda the URL found (200), no article or no list found
\* (404), or an exception caught (500)
GetArticleAudio ==
    /\ pc = "get_article_audio"
    /\ \E r \in {Response(200, [url |-> "url"])}
                \cup (IF IS_LAMBDA
                      THEN {Response(404, [error |-> "Audio file for article id1 not found"]),
                            Response(404, [error |-> "Episodes list not found"]),
                            Response(500, [error |-> "Internal server error"])}
                      ELSE {}) :
          resp' = r
    /\ pc' = "done"
    /\ UNCHANGED <<stored, metadata, idx, akeys, probes, signs,
                   keyVars, assemblyVars, storeVars, proxyVars>>

\* audio_proxy.lambda_handler is called with the path parameter that
\* handle_request has set
NextHandler ==
    \/ HandleRequest
    \/ NextPlaylist
    \/ NextEpisode
    \/ ProxyInvalidPath
    \/ ProxyCleanPath
    \/ ProxyFetchS3
    \/ ProxyFetchLocal
    \/ GetEpisodes
    \/ GetArticleAudio

SpecHandler == InitHandler /\ [][NextHandler]_vars

----------------------------------------------------------------------------
(* Claims about handle_request (specification SpecHandler) *)

\* the response carries the CORS headers
HasCorsHeaders(r) ==
    /\ "headers" \in DOMAIN r
    /\ \A h \in DOMAIN CORS_HEADERS :
          h \in DOMAIN r.headers /\ r.headers[h] = CORS_HEADERS[h]

\* nothing was read from the store or the file system
NothingRead ==
    /\ metadata = << >>
    /\ idx = 0 /\ akeys = << >> /\ probes = NoProbes /\ signs = {}
    /\ paths_to_try = << >>

\* the positions of handle_request and of the handlers it calls
HandlerPositions ==
    {"handle_request", "get_playlist", "convert", "get_episode", "articles", "outro",
     "proxy", "fetch", "get_episodes", "get_article_audio", "done"}

C28_ProxyExceptionCaught ==
    /\ pc = "done"
    /\ "pathParameters" \in DOMAIN event
    /\ outage = "conn"
    /\ resp.statusCode = 500
    /\ HasCorsHeaders(resp)
    /\ idx = 1

C28_ProxyFileServed ==
    /\ pc = "done"
    /\ "pathParameters" \in DOMAIN event
    /\ resp.statusCode = 200
    /\ "isBase64Encoded" \in DOMAIN resp
    /\ HasCorsHeaders(resp)

====
